---- MODULE Spec2Model ----
(***************************************************************************)
(* Model of brkraw's spec-driven remapping engine                          *)
(* (src/src/brkraw/specs/remapper/logic.py) and of the rule selector       *)
(* (src/src/brkraw/specs/rules/logic.py).                                  *)
(*                                                                         *)
(* Python values are modelled as follows.                                  *)
(*  - A scalar is an Atom record; None is the atom of tag "none".  A str   *)
(*    is the sequence of its characters, and a str that names a file is    *)
(*    the sequence of the parts of its path (what Path(s).parts gives).    *)
(*  - A value that may be a dict (the output tree, a resolved `inputs`     *)
(*    block) is a tree: a function from key paths to atoms, whose interior *)
(*    nodes hold DictNode.  A scalar value v is the tree Leaf(v).          *)
(*  - A dict whose keys the code tests with `in` is a record, and          *)
(*    `"k" in d` is `"k" \in DOMAIN d`.                                    *)
(*  - A dotted key "a.b" is the sequence <<"a", "b">> of its segments,     *)
(*    i.e. the result of dotted.split(".").                                *)
(*  - A transform given by one name n is the one-element chain <<n>>.      *)
(*  - An exception is a record [type, msg]; an operator that may raise     *)
(*    returns a record with ok = FALSE and the exception in exc.           *)
(***************************************************************************)
EXTENDS Integers, Sequences, FiniteSets, TLC

(* ------------------------------ values ------------------------------- *)

Atom(tag, i, s) == [tag |-> tag, i |-> i, s |-> s]
None == Atom("none", 0, <<>>)
IntV(i) == Atom("int", i, <<>>)
StrV(s) == Atom("str", 0, s)
DictNode == Atom("dict", 0, <<>>)

Leaf(a) == (<<>> :> a)
EmptyDict == Leaf(DictNode)

IsPrefix(p, q) == Len(p) <= Len(q) /\ SubSeq(q, 1, Len(p)) = p
Drop(q, n) == SubSeq(q, n + 1, Len(q))

\* The value stored under path p of tree t (p is in DOMAIN t).
SubTree(t, p) ==
  [q \in {Drop(r, Len(p)) : r \in {x \in DOMAIN t : IsPrefix(p, x)}} |-> t[p \o q]]

\* cur[key] = v, where cur is the dict at the parent of path p: whatever was
\* stored under p is replaced by v.
Graft(t, p, v) ==
  LET kept == {x \in DOMAIN t : ~IsPrefix(p, x)}
  IN  [q \in kept \cup {p \o r : r \in DOMAIN v} |->
         IF IsPrefix(p, q) THEN v[Drop(q, Len(p))] ELSE t[q]]

\* The dict {name: kw[name]} of a resolved inputs block.
MkDict(kw) ==
  [q \in {<<>>} \cup UNION {{<<n>> \o r : r \in DOMAIN kw[n]} : n \in DOMAIN kw} |->
     IF Len(q) = 0 THEN DictNode ELSE kw[q[1]][Drop(q, 1)]]

\* The keys of the dict at the root of tree t.
TopKeys(t) == {q[1] : q \in {x \in DOMAIN t : Len(x) = 1}}

(* ---------------------------- exceptions ----------------------------- *)

NoExc == [type |-> "", msg |-> <<>>]
Exc(type, msg) == [type |-> type, msg |-> msg]

\* Results of the operators that may raise.  calls is the log of the transform
\* bodies executed so far, in order.
Ok(v, calls) == [ok |-> TRUE, val |-> v, exc |-> NoExc, calls |-> calls]
Raise(type, msg, calls) ==
  [ok |-> FALSE, val |-> Leaf(None), exc |-> Exc(type, msg), calls |-> calls]

(* ------------------------- lists, strs, paths ------------------------ *)

ListV(items) == [tag |-> "list", i |-> 0, s |-> <<>>, items |-> items]

\* a == b for two Python values.
PyEq(a, b) ==
  /\ a.tag = b.tag
  /\ IF a.tag = "list"
     THEN /\ Len(a.items) = Len(b.items)
          /\ \A k \in DOMAIN a.items :
               /\ a.items[k].tag = b.items[k].tag
               /\ a.items[k].i = b.items[k].i
               /\ a.items[k].s = b.items[k].s
     ELSE a.i = b.i /\ a.s = b.s

\* The characters of the model, in code point order.
Alphabet ==
  <<"-", ".", "0", "1", "2", "3", "4", "5", "6", "7", "8", "9", "N", "a", "b", "c",
    "e", "n", "o">>
Ord(c) == CHOOSE k \in DOMAIN Alphabet : Alphabet[k] = c

RECURSIVE Digits(_)
Digits(n) ==
  IF n < 10 THEN <<Alphabet[n + 3]>> ELSE Append(Digits(n \div 10), Alphabet[(n % 10) + 3])

\* str(a) for a scalar.
str(a) ==
  IF a.tag = "str" THEN a.s
  ELSE IF a.tag = "int" THEN (IF a.i < 0 THEN <<"-">> \o Digits(-a.i) ELSE Digits(a.i))
  ELSE <<"N", "o", "n", "e">>

\* s < t for two strs.
StrLess(s, t) ==
  \E k \in 1..(Len(t)) :
    /\ k <= Len(s) + 1
    /\ SubSeq(s, 1, k - 1) = SubSeq(t, 1, k - 1)
    /\ k <= Len(s) => Ord(s[k]) < Ord(t[k])

\* sub in text, for two strs.
Within(sub, text) ==
  \E k \in 0..(Len(text) - Len(sub)) : SubSeq(text, k + 1, k + Len(sub)) = sub

\* re.search(pattern, text) for a pattern of literal characters, "." for any
\* character, "^" in front and "$" at the end.
re_search(pattern, text) ==
  LET front == pattern # <<>> /\ pattern[1] = "^"
      back  == pattern # <<>> /\ pattern[Len(pattern)] = "$"
      core  == SubSeq(pattern, IF front THEN 2 ELSE 1,
                      IF back THEN Len(pattern) - 1 ELSE Len(pattern))
  IN \E k \in 0..(Len(text) - Len(core)) :
       /\ front => k = 0
       /\ back => k = Len(text) - Len(core)
       /\ \A j \in DOMAIN core : core[j] = "." \/ core[j] = text[k + j]

BoolOk(b) == [ok |-> TRUE, val |-> b, exc |-> NoExc]
BoolRaise(type, msg) == [ok |-> FALSE, val |-> FALSE, exc |-> Exc(type, msg)]

\* Path.resolve() of a path without symbolic links: "." goes, ".." takes
\* the part before it away.
Resolve(path) ==
  LET step[k \in 0..Len(path)] ==
        IF k = 0 THEN <<>>
        ELSE IF path[k] = "." THEN step[k - 1]
        ELSE IF path[k] = ".."
        THEN IF step[k - 1] \in {<<>>, <<"/">>} THEN step[k - 1]
             ELSE SubSeq(step[k - 1], 1, Len(step[k - 1]) - 1)
        ELSE Append(step[k - 1], path[k])
  IN step[Len(path)]

is_absolute(path) == path # <<>> /\ path[1] = "/"
parent(path) == IF path = <<>> THEN <<>> ELSE SubSeq(path, 1, Len(path) - 1)

(* --------------------------- source lookup --------------------------- *)

\* Optional.get: <<>> is Python's None, <<x>> is x.
Opt(d, k) == IF k \in DOMAIN d THEN <<d[k]>> ELSE <<>>

\* A source is [kind, tables, recos]: tables maps the files among method, acqp
\* and subject that the source carries to their parameter table (a function
\* from the keys present to atoms); recos maps each reco id to its
\* [visu_pars, reco] tables.  kind "map" is a plain mapping of parameter
\* containers, "scan" a scan-like object, "study" a study-like object.
get_params_from_map(params_map, file, reco_id) ==
  IF file = "subject" THEN Opt(params_map.tables, "subject")
  ELSE IF file \in {"visu_pars", "reco"} THEN
    IF DOMAIN params_map.recos = {} THEN <<>>
    ELSE IF Len(reco_id) = 0 THEN
      IF Cardinality(DOMAIN params_map.recos) = 1
      THEN <<params_map.recos[CHOOSE r \in DOMAIN params_map.recos : TRUE][file]>>
      ELSE <<>>
    ELSE IF reco_id[1] \in DOMAIN params_map.recos
      THEN <<params_map.recos[reco_id[1]][file]>>
      ELSE <<>>
  ELSE Opt(params_map.tables, file)

\* `reco_id or 1`
reco_or_1(reco_id) == IF Len(reco_id) = 0 \/ reco_id[1] = 0 THEN 1 ELSE reco_id[1]

\* Returns [ok, params, exc]; params is <<>> for None.  An attribute the
\* object does not have raises AttributeError, a reco it does not have raises
\* from get_reco.
get_params(source, file, reco_id) ==
  IF source.kind = "map"
  THEN [ok |-> TRUE, params |-> get_params_from_map(source, file, reco_id), exc |-> NoExc]
  ELSE IF file = "subject"
  THEN [ok |-> TRUE, params |-> Opt(source.tables, "subject"), exc |-> NoExc]
  ELSE IF file \in {"method", "acqp"} THEN
    IF file \in DOMAIN source.tables
    THEN [ok |-> TRUE, params |-> <<source.tables[file]>>, exc |-> NoExc]
    ELSE [ok |-> FALSE, params |-> <<>>, exc |-> Exc("AttributeError", <<file>>)]
  ELSE IF file \in {"visu_pars", "reco"} THEN
    IF source.kind # "scan"
    THEN [ok |-> FALSE, params |-> <<>>, exc |-> Exc("AttributeError", <<"get_reco">>)]
    ELSE IF reco_or_1(reco_id) \in DOMAIN source.recos
    THEN [ok |-> TRUE, params |-> <<source.recos[reco_or_1(reco_id)][file]>>, exc |-> NoExc]
    ELSE [ok |-> FALSE, params |-> <<>>, exc |-> Exc("KeyError", <<"reco">>)]
  ELSE [ok |-> TRUE, params |-> <<>>, exc |-> NoExc]

is_study_like(source) == source.kind = "study"

(* ----------------------------- transforms ---------------------------- *)

\* A transform is a callable [params, body]: params is its signature, a
\* sequence of [name, kind, dflt] (dflt: the parameter has a default, which
\* is None), as inspect.signature reports it.
Named == {"POSITIONAL_OR_KEYWORD", "KEYWORD_ONLY"}
Positional == {"POSITIONAL_ONLY", "POSITIONAL_OR_KEYWORD"}

ParamsOf(t) == {t.params[k] : k \in DOMAIN t.params}

\* The body of the transform, on its bound arguments (bound: parameter name ->
\* value) and the keywords kw it was called with.
Body(t, bound, kw, calls) ==
  CASE t.body = "echo" -> Ok(bound["a"], calls)
    [] t.body = "pick" -> Ok(IF bound["a"] # Leaf(None) THEN bound["a"] ELSE bound["b"], calls)
    [] t.body = "count" -> Ok(Leaf(IntV(Cardinality(DOMAIN kw))), calls)
    [] t.body = "inc" ->
         IF DOMAIN bound["x"] = {<<>>} /\ bound["x"][<<>>].tag = "int"
         THEN Ok(Leaf(IntV(bound["x"][<<>>].i + 1)), calls)
         ELSE Raise("TypeError", <<"unsupported operand">>, calls)
    [] t.body = "decode" ->
         IF DOMAIN bound["x"] = {<<>>} /\ bound["x"][<<>>].tag = "int"
         THEN Raise("UnicodeDecodeError", <<"invalid start byte">>, calls)
         ELSE Raise("TypeError", <<"unsupported operand">>, calls)

Defaults(t) == [n \in {p.name : p \in {x \in ParamsOf(t) : x.dflt}} |-> Leaf(None)]

\* transform(**kw): Python binds the keywords, raising TypeError when one is
\* unexpected or a parameter without default is left unbound, then runs the body.
CallKw(name, t, kw, calls) ==
  LET named   == {p.name : p \in {x \in ParamsOf(t) : x.kind \in Named}}
      var_kw  == \E p \in ParamsOf(t) : p.kind = "VAR_KEYWORD"
      needed  == {p.name : p \in {x \in ParamsOf(t) :
                     x.kind \in Named \cup Positional /\ ~x.dflt}}
  IN  IF (~var_kw /\ ~(DOMAIN kw \subseteq named)) \/ ~(needed \subseteq DOMAIN kw)
      THEN Raise("TypeError", <<name, "arguments">>, calls)
      ELSE Body(t, [n \in DOMAIN kw \cap named |-> kw[n]] @@ Defaults(t), kw,
                Append(calls, [name |-> name, arg |-> MkDict(kw)]))

\* transform(val)
CallPos(name, t, val, calls) ==
  LET pos     == SelectSeq(t.params, LAMBDA p : p.kind \in Positional)
      var_pos == \E p \in ParamsOf(t) : p.kind = "VAR_POSITIONAL"
      first   == IF Len(pos) > 0 THEN {pos[1].name} ELSE {}
      needed  == {p.name : p \in {x \in ParamsOf(t) :
                     x.kind \in Named \cup Positional /\ ~x.dflt}}
  IN  IF (Len(pos) = 0 /\ ~var_pos) \/ ~(needed \subseteq first)
      THEN Raise("TypeError", <<name, "arguments">>, calls)
      ELSE Body(t, [n \in first |-> val] @@ Defaults(t), <<>>,
                Append(calls, [name |-> name, arg |-> val]))

\* apply_transform_chain that leaves a None value alone.
apply_transform_chain_none_skipped(value, transforms, names, calls) ==
  LET step[k \in 0..Len(names)] ==
        IF k = 0 THEN Ok(value, calls)
        ELSE LET prev == step[k - 1] IN
             IF ~prev.ok \/ prev.val = Leaf(None) THEN prev
             ELSE IF names[k] \notin DOMAIN transforms
             THEN Raise("KeyError", <<names[k]>>, prev.calls)
             ELSE CallPos(names[k], transforms[names[k]], prev.val, prev.calls)
  IN  step[Len(names)]

apply_transform_chain(value, transforms, names, calls) ==
  LET step[k \in 0..Len(names)] ==
        IF k = 0 THEN Ok(value, calls)
        ELSE LET prev == step[k - 1] IN
             IF ~prev.ok THEN prev
             ELSE IF names[k] \notin DOMAIN transforms
             THEN Raise("KeyError", <<names[k]>>, prev.calls)
             ELSE CallPos(names[k], transforms[names[k]], prev.val, prev.calls)
  IN  step[Len(names)]

\* The rest of the chain, applied to the result of the head transform.
chain_tail(head, transforms, tail) ==
  IF ~head.ok THEN head
  ELSE apply_transform_chain(head.val, transforms, tail, head.calls)

\* apply_inputs_transform without the check of the names against the signature.
apply_inputs_transform_unchecked(inputs, transforms, name, calls) ==
  IF Len(name) = 0 THEN Raise("ValueError", <<"Transform chain cannot be empty.">>, calls)
  ELSE IF name[1] \notin DOMAIN transforms THEN Raise("KeyError", <<name[1]>>, calls)
  ELSE chain_tail(CallKw(name[1], transforms[name[1]], inputs, calls), transforms, Tail(name))

apply_inputs_transform(inputs, transforms, name, calls) ==
  IF Len(name) = 0 THEN Raise("ValueError", <<"Transform chain cannot be empty.">>, calls)
  ELSE IF name[1] \notin DOMAIN transforms THEN Raise("KeyError", <<name[1]>>, calls)
  ELSE
    LET transform == transforms[name[1]]
        var_kw   == \E p \in ParamsOf(transform) : p.kind = "VAR_KEYWORD"
        expected == {p.name : p \in {x \in ParamsOf(transform) : x.kind \in Named}}
        required == {p.name : p \in {x \in ParamsOf(transform) : x.kind \in Named /\ ~x.dflt}}
        extra    == DOMAIN inputs \ expected
        missing  == required \ DOMAIN inputs
    IN  IF ~var_kw /\ (extra # {} \/ missing # {})
        THEN Raise("ValueError", <<"kwargs mismatch", name[1], extra, missing>>, calls)
        ELSE chain_tail(CallKw(name[1], transform, inputs, calls), transforms, Tail(name))

(* ------------------------- the output tree --------------------------- *)

\* set_nested that makes every intermediate dict anew.
set_nested_fresh_parents(d, dotted, value) ==
  LET cur[k \in 0..(Len(dotted) - 1)] ==
        IF k = 0 THEN d ELSE Graft(cur[k - 1], SubSeq(dotted, 1, k), EmptyDict)
  IN  Graft(cur[Len(dotted) - 1], dotted, value)

set_nested(d, dotted, value) ==
  LET parts == dotted
      cur[k \in 0..(Len(parts) - 1)] ==
        IF k = 0 THEN d
        ELSE LET key == SubSeq(parts, 1, k) IN
             IF key \notin DOMAIN cur[k - 1] \/ cur[k - 1][key] # DictNode
             THEN Graft(cur[k - 1], key, EmptyDict)
             ELSE cur[k - 1]
  IN  Graft(cur[Len(parts) - 1], parts, value)

\* get_nested that looks up top-level keys only.
get_nested_top_level(d, dotted) ==
  IF Len(dotted) = 1 /\ dotted \in DOMAIN d THEN SubTree(d, dotted) ELSE Leaf(None)

get_nested(d, dotted) ==
  LET cur[k \in 0..Len(dotted)] ==
        IF k = 0 THEN <<d>>
        ELSE IF Len(cur[k - 1]) = 0 THEN <<>>
        ELSE LET c == cur[k - 1][1] IN
             IF c[<<>>] # DictNode \/ <<dotted[k]>> \notin DOMAIN c THEN <<>>
             ELSE <<SubTree(c, <<dotted[k]>>)>>
  IN  IF Len(cur[Len(dotted)]) = 0 THEN Leaf(None) ELSE cur[Len(dotted)][1]

(* ---------------------------- resolution ----------------------------- *)

\* Each operator below that continues from the result of a call takes that
\* result as its first parameter (inputs, params, raw, one, rest, val), which
\* carries the name the code gives it.

RECURSIVE resolve_value(_, _, _, _, _)
RECURSIVE resolve_input(_, _, _, _, _)
RECURSIVE resolve_inputs(_, _, _, _, _)

\* The value of an inputs block held by `holder` (a rule or an inline source
\* descriptor) once its inputs are resolved: the transform's result, or the
\* inputs dict itself.
inputs_value(inputs, holder, transforms) ==
  IF ~inputs.ok THEN Raise(inputs.exc.type, inputs.exc.msg, inputs.calls)
  ELSE IF "transform" \in DOMAIN holder
  THEN apply_inputs_transform(inputs.kw, transforms, holder.transform, inputs.calls)
  ELSE Ok(MkDict(inputs.kw), inputs.calls)

\* The file descriptor sources[1], once its parameter container is looked up.
file_value(params, source, sources, transforms, result_ctx, calls) ==
  IF ~params.ok THEN Raise(params.exc.type, params.exc.msg, calls)
  ELSE IF Len(params.params) = 0
  THEN resolve_value(source, Tail(sources), transforms, result_ctx, calls)
  ELSE IF sources[1].key \in DOMAIN params.params[1]
  THEN Ok(Leaf(params.params[1][sources[1].key]), calls)
  ELSE resolve_value(source, Tail(sources), transforms, result_ctx, calls)

\* sources: a sequence of descriptors, each [file, key(, reco_id)] or an
\* inline [inputs(, transform)].
resolve_value(source, sources, transforms, result_ctx, calls) ==
  IF Len(sources) = 0 THEN Ok(Leaf(None), calls)
  ELSE IF "inputs" \in DOMAIN sources[1]
  THEN inputs_value(resolve_inputs(source, sources[1].inputs, transforms, result_ctx, calls),
                    sources[1], transforms)
  ELSE file_value(get_params(source, sources[1].file, Opt(sources[1], "reco_id")),
                  source, sources, transforms, result_ctx, calls)

\* raw_value with the default taken before the value the sources gave.
raw_value_default_first(raw, spec, transforms, names) ==
  IF ~raw.ok THEN raw
  ELSE IF "default" \in DOMAIN spec
  THEN apply_transform_chain(Leaf(spec.default), transforms, names, raw.calls)
  ELSE IF raw.val = Leaf(None) THEN
    IF "required" \in DOMAIN spec /\ spec.required
    THEN Raise("KeyError", <<"Required input missing", spec>>, raw.calls)
    ELSE Ok(Leaf(None), raw.calls)
  ELSE apply_transform_chain(raw.val, transforms, names, raw.calls)

\* raw_value with the required flag ignored.
raw_value_not_required(raw, spec, transforms, names) ==
  IF ~raw.ok THEN raw
  ELSE IF raw.val = Leaf(None) THEN
    IF "default" \in DOMAIN spec
    THEN apply_transform_chain(Leaf(spec.default), transforms, names, raw.calls)
    ELSE Ok(Leaf(None), raw.calls)
  ELSE apply_transform_chain(raw.val, transforms, names, raw.calls)

\* An input spec without const and ref, once its sources are resolved to raw.
raw_value(raw, spec, transforms, names) ==
  IF ~raw.ok THEN raw
  ELSE IF raw.val = Leaf(None) THEN
    IF "default" \in DOMAIN spec
    THEN apply_transform_chain(Leaf(spec.default), transforms, names, raw.calls)
    ELSE IF "required" \in DOMAIN spec /\ spec.required
    THEN Raise("KeyError", <<"Required input missing", spec>>, raw.calls)
    ELSE Ok(Leaf(None), raw.calls)
  ELSE apply_transform_chain(raw.val, transforms, names, raw.calls)

\* resolve_input in which the value of a ref is treated as the value the
\* sources gave: default, required and transform apply to it.
resolve_input_ref_as_raw(source, spec, transforms, result_ctx, calls) ==
  IF "const" \in DOMAIN spec THEN Ok(Leaf(spec.const), calls)
  ELSE raw_value(IF "ref" \in DOMAIN spec THEN Ok(get_nested(result_ctx, spec.ref), calls)
                 ELSE resolve_value(source,
                                    IF "sources" \in DOMAIN spec THEN spec.sources ELSE <<>>,
                                    transforms, result_ctx, calls),
                 spec, transforms,
                 IF "transform" \in DOMAIN spec THEN spec.transform ELSE <<>>)

\* spec: an input spec, a record with any of const, ref, sources, default,
\* required, transform.
resolve_input(source, spec, transforms, result_ctx, calls) ==
  IF "const" \in DOMAIN spec THEN Ok(Leaf(spec.const), calls)
  ELSE IF "ref" \in DOMAIN spec THEN Ok(get_nested(result_ctx, spec.ref), calls)
  ELSE raw_value(resolve_value(source,
                               IF "sources" \in DOMAIN spec THEN spec.sources ELSE <<>>,
                               transforms, result_ctx, calls),
                 spec, transforms,
                 IF "transform" \in DOMAIN spec THEN spec.transform ELSE <<>>)

\* inputs[name] = one, after the earlier items gave rest.
inputs_add(one, rest, name) ==
  IF ~one.ok THEN [ok |-> FALSE, kw |-> <<>>, exc |-> one.exc, calls |-> one.calls]
  ELSE [ok |-> TRUE, kw |-> (name :> one.val) @@ rest.kw, exc |-> NoExc, calls |-> one.calls]

inputs_next(rest, source, item, transforms, result_ctx) ==
  IF ~rest.ok THEN rest
  ELSE inputs_add(resolve_input(source, item.spec, transforms, result_ctx, rest.calls),
                  rest, item.name)

\* inputs_spec: the sequence of the block's [name, spec] items, in mapping
\* order.  Returns [ok, kw, exc, calls], kw the dict name -> resolved value.
resolve_inputs(source, inputs_spec, transforms, result_ctx, calls) ==
  IF Len(inputs_spec) = 0 THEN [ok |-> TRUE, kw |-> <<>>, exc |-> NoExc, calls |-> calls]
  ELSE inputs_next(resolve_inputs(source, SubSeq(inputs_spec, 1, Len(inputs_spec) - 1),
                                  transforms, result_ctx, calls),
                   source, inputs_spec[Len(inputs_spec)], transforms, result_ctx)

(* -------------------------- map_parameters --------------------------- *)

\* A spec is the sequence of its [key, rule] items in mapping order; key is
\* the dotted output key, <<"__meta__">> for the meta block.

\* The files check_sources sees in one sources list.
check_sources(sources) ==
  {sources[k].file : k \in {j \in DOMAIN sources : "file" \in DOMAIN sources[j]}}

\* The files seen over the whole spec: each rule's sources, and the sources of
\* each input spec of its inputs block.
checked_files(spec) ==
  UNION {
    (IF "sources" \in DOMAIN spec[k].rule THEN check_sources(spec[k].rule.sources) ELSE {})
    \cup
    (IF "inputs" \in DOMAIN spec[k].rule
     THEN UNION {
            IF "sources" \in DOMAIN spec[k].rule.inputs[j].spec
            THEN check_sources(spec[k].rule.inputs[j].spec.sources) ELSE {}
            : j \in DOMAIN spec[k].rule.inputs}
     ELSE {})
    : k \in DOMAIN spec}

\* NoExc when the spec passes, else the ValueError raised.
enforce_study_rules(spec) ==
  LET has_subject_source == "subject" \in checked_files(spec)
      disallowed_files   == checked_files(spec) \ {"subject"}
  IN  IF disallowed_files # {}
      THEN Exc("ValueError", <<"Study remap only supports subject sources", disallowed_files>>)
      ELSE IF ~has_subject_source
      THEN Exc("ValueError", <<"Study remap requires at least one subject source.">>)
      ELSE NoExc

\* `val` of a rule resolved from sources, once the sources gave raw.
sources_value(raw, rule, transforms) ==
  IF ~raw.ok THEN raw
  ELSE apply_transform_chain(raw.val, transforms,
         IF "transform" \in DOMAIN rule THEN rule.transform ELSE <<>>, raw.calls)

\* `raise type(exc)(msg) from exc`: the exception type is called with the one
\* argument msg.  UnicodeDecodeError takes exactly five arguments, so the call
\* itself raises TypeError and that is what leaves the except block.
reraise(exc, out_key, rule) ==
  IF exc.type = "UnicodeDecodeError"
  THEN Exc("TypeError", <<"function takes exactly 5 arguments (1 given)">>)
  ELSE Exc(exc.type, <<"Error mapping", out_key, rule, exc.msg>>)

\* The write of val under out_key, or the re-raise of its exception with the
\* key and the rule in the message.
map_store(val, out_key, rule, result) ==
  IF ~val.ok
  THEN [ok |-> FALSE, result |-> result, calls |-> val.calls,
        exc |-> reraise(val.exc, out_key, rule)]
  ELSE [ok |-> TRUE, calls |-> val.calls, exc |-> NoExc,
        result |-> IF Len(out_key) > 1 THEN set_nested(result, out_key, val.val)
                   ELSE Graft(result, out_key, val.val)]

\* One iteration of the rule loop: returns [ok, result, exc, calls].
map_rule(source, out_key, rule, transforms, result, calls) ==
  map_store(
    IF "inputs" \in DOMAIN rule
    THEN inputs_value(resolve_inputs(source, rule.inputs, transforms, result, calls),
                      rule, transforms)
    ELSE sources_value(resolve_value(source,
                                     IF "sources" \in DOMAIN rule THEN rule.sources ELSE <<>>,
                                     transforms, result, calls),
                       rule, transforms),
    out_key, rule, result)

(* ------------------------------ map rules ------------------------------ *)
\* A map document is the sequence of its [key, raw] entries in file order:
\* key is the dotted output key as its segments, raw the entry's value, which
\* is [kind |-> "list", items |-> candidates], [kind |-> "dict", rule |-> r] or
\* [kind |-> "scalar"].  A candidate is a map rule, a record of the keys it
\* holds among when, type, values, default, value and override, or an atom
\* when the list item is no mapping.  `when` is [kind |-> "dict", items |->
\* its [key, cond] items], `values` is [kind |-> "dict", items |-> its [key,
\* value] items]; either is [kind |-> "scalar"] when it is no mapping.  A
\* condition is an atom or list (tested with ==)
\* or [kind |-> "dict", items |-> <<[op, expected]>>].  A Python value is an
\* atom, a ListV of atoms, or DictNode for a dict.

\* The value held at the root of a tree.
TreeValue(t) == t[<<>>]

\* getattr(source, "scan_id", None) and getattr(source, "reco_id", None).
get_source_ids(src) ==
  [scanid  |-> IF "scan_id" \in DOMAIN src THEN src.scan_id ELSE None,
   scan_id |-> IF "scan_id" \in DOMAIN src THEN src.scan_id ELSE None,
   recoid  |-> IF "reco_id" \in DOMAIN src THEN src.reco_id ELSE None,
   reco_id |-> IF "reco_id" \in DOMAIN src THEN src.reco_id ELSE None]

\* str.lower, for the names of the model.
lower(name) ==
  CASE name = "ScanID" -> "scanid"
    [] name = "Reco_ID" -> "reco_id"
    [] OTHER -> name

\* _resolve_nested is called but defined nowhere in the module: the call
\* raises NameError.
resolve_nested(d, key) ==
  [ok |-> FALSE, missing |-> TRUE, val |-> None,
   exc |-> Exc("NameError", <<"name '_resolve_nested' is not defined">>)]

\* [ok, missing, val, exc]; missing stands for the _MISSING sentinel.
resolve_context_value(key, d, ids) ==
  IF Len(key) = 1 /\ lower(key[1]) \in DOMAIN ids /\ ids[lower(key[1])].tag # "none"
  THEN [ok |-> TRUE, missing |-> FALSE, val |-> ids[lower(key[1])], exc |-> NoExc]
  ELSE IF Len(key) > 1 THEN resolve_nested(d, key)
  ELSE IF key \in DOMAIN d
  THEN [ok |-> TRUE, missing |-> FALSE, val |-> TreeValue(SubTree(d, key)), exc |-> NoExc]
  ELSE [ok |-> TRUE, missing |-> TRUE, val |-> None, exc |-> NoExc]

IsCondMap(cond) == "kind" \in DOMAIN cond

\* `x in expected` for a list expected.
InList(x, expected) == \E k \in DOMAIN expected.items : PyEq(x, expected.items[k])

RECURSIVE matches_condition(_, _)

\* One `op: expected` item of a condition mapping.
condition_item(value, op, expected) ==
  CASE op = "not" -> ~matches_condition(value, expected)
    [] op = "in" ->
         LET exp == IF expected.tag = "list" THEN expected ELSE ListV(<<expected>>)
         IN  IF value.tag = "list"
             THEN \E k \in DOMAIN value.items : InList(value.items[k], exp)
             ELSE InList(value, exp)
    [] op = "regex" -> re_search(str(expected), str(value))
    [] OTHER -> PyEq(value, expected)

matches_condition(value, cond) ==
  IF IsCondMap(cond)
  THEN \A k \in DOMAIN cond.items :
         condition_item(value, cond.items[k].op, cond.items[k].expected)
  ELSE PyEq(value, cond)

\* [ok, val, exc]: the items are tested in order and the first that fails,
\* or raises, ends the test.
matches_when(when, d, ids) ==
  IF when.kind # "dict" THEN BoolRaise("ValueError", <<"when must be a mapping.">>)
  ELSE LET step[k \in 0..Len(when.items)] ==
             IF k = 0 THEN BoolOk(TRUE)
             ELSE IF ~step[k - 1].ok \/ ~step[k - 1].val THEN step[k - 1]
             ELSE IF ~resolve_context_value(when.items[k].key, d, ids).ok
             THEN BoolRaise(resolve_context_value(when.items[k].key, d, ids).exc.type,
                            resolve_context_value(when.items[k].key, d, ids).exc.msg)
             ELSE IF resolve_context_value(when.items[k].key, d, ids).missing THEN BoolOk(FALSE)
             ELSE BoolOk(matches_condition(resolve_context_value(when.items[k].key, d, ids).val,
                                           when.items[k].cond))
       IN step[Len(when.items)]

\* [ok, items, exc]: the candidates of an entry, the list items that are no
\* mapping left out.
normalize_map_rules(raw_rule) ==
  IF raw_rule.kind = "list"
  THEN [ok |-> TRUE, exc |-> NoExc,
        items |-> SelectSeq(raw_rule.items, LAMBDA r : "tag" \notin DOMAIN r)]
  ELSE IF raw_rule.kind = "dict"
  THEN [ok |-> TRUE, exc |-> NoExc, items |-> <<raw_rule.rule>>]
  ELSE [ok |-> FALSE, items |-> <<>>,
        exc |-> Exc("ValueError", <<"Map rule must be a mapping or list of mappings.">>)]

\* [ok, found, current, exc]; current is a tree.
get_output_value(d, out_key) ==
  IF Len(out_key) > 1
  THEN [ok |-> FALSE, found |-> FALSE, current |-> Leaf(None), exc |-> resolve_nested(d, out_key).exc]
  ELSE IF out_key \in DOMAIN d
  THEN [ok |-> TRUE, found |-> TRUE, current |-> SubTree(d, out_key), exc |-> NoExc]
  ELSE [ok |-> TRUE, found |-> FALSE, current |-> Leaf(None), exc |-> NoExc]

\* `k in mapping` and mapping[k] for a values table.
InTable(k, mapping) == \E i \in DOMAIN mapping : PyEq(mapping[i].key, k)
TableGet(k, mapping) == mapping[CHOOSE i \in DOMAIN mapping : PyEq(mapping[i].key, k)].value

\* _map_lookup for a value that is no list.
map_lookup_item(value, mapping, default, has_default) ==
  IF InTable(value, mapping) THEN TableGet(value, mapping)
  ELSE IF value.tag # "str" /\ InTable(StrV(str(value)), mapping)
  THEN TableGet(StrV(str(value)), mapping)
  ELSE IF has_default THEN default
  ELSE value

\* _map_lookup: [ok, val, exc].  A dict is unhashable, so `value in mapping`
\* raises TypeError for it.
map_lookup(value, mapping, default, has_default) ==
  IF value.tag = "dict" \/ (value.tag = "list" /\ \E k \in DOMAIN value.items : value.items[k].tag = "dict")
  THEN [ok |-> FALSE, val |-> None, exc |-> Exc("TypeError", <<"unhashable type: 'dict'">>)]
  ELSE [ok |-> TRUE, exc |-> NoExc,
        val |-> IF value.tag = "list"
                THEN ListV([k \in DOMAIN value.items |->
                              map_lookup_item(value.items[k], mapping, default, has_default)])
                ELSE map_lookup_item(value, mapping, default, has_default)]

RuleGet(rule, k) == IF k \in DOMAIN rule THEN rule[k] ELSE None

\* The type of a rule: rule.get("type"), or what its keys say.
rule_type(rule) ==
  IF "type" \in DOMAIN rule /\ rule.type.tag # "none" THEN rule.type
  ELSE IF "values" \in DOMAIN rule THEN StrV(<<"mapping">>)
  ELSE IF "value" \in DOMAIN rule THEN StrV(<<"const">>)
  ELSE None

HasValue(v) == [ok |-> TRUE, val |-> v, has_value |-> TRUE, exc |-> NoExc]
NoValue(v) == [ok |-> TRUE, val |-> v, has_value |-> FALSE, exc |-> NoExc]

\* The result of _map_lookup as the result of _resolve_rule_value.
looked_up(m) ==
  IF m.ok THEN HasValue(m.val)
  ELSE [ok |-> FALSE, val |-> None, has_value |-> FALSE, exc |-> m.exc]

\* resolve_rule_value that looks a null current value up as any other.
resolve_rule_value_lookup_always(rule, current) ==
  IF "default" \in DOMAIN rule /\ "when" \notin DOMAIN rule THEN HasValue(rule.default)
  ELSE IF PyEq(rule_type(rule), StrV(<<"mapping">>)) THEN
    IF "values" \notin DOMAIN rule \/ rule.values.kind # "dict"
    THEN [ok |-> FALSE, val |-> None, has_value |-> FALSE,
          exc |-> Exc("ValueError", <<"map values must be a mapping.">>)]
    ELSE looked_up(map_lookup(current, rule.values.items, RuleGet(rule, "default"),
                              "default" \in DOMAIN rule))
  ELSE IF PyEq(rule_type(rule), StrV(<<"const">>)) THEN HasValue(RuleGet(rule, "value"))
  ELSE IF "value" \in DOMAIN rule THEN HasValue(rule.value)
  ELSE IF "default" \in DOMAIN rule THEN HasValue(rule.default)
  ELSE NoValue(current)

\* _resolve_rule_value: [ok, val, has_value, exc]; current is a Python value.
resolve_rule_value(rule, current) ==
  IF "default" \in DOMAIN rule /\ "when" \notin DOMAIN rule THEN HasValue(rule.default)
  ELSE IF PyEq(rule_type(rule), StrV(<<"mapping">>)) THEN
    IF "values" \notin DOMAIN rule \/ rule.values.kind # "dict"
    THEN [ok |-> FALSE, val |-> None, has_value |-> FALSE,
          exc |-> Exc("ValueError", <<"map values must be a mapping.">>)]
    ELSE IF current.tag = "none" /\ "default" \notin DOMAIN rule
            /\ ~InTable(None, rule.values.items)
    THEN NoValue(current)
    ELSE looked_up(map_lookup(current, rule.values.items, RuleGet(rule, "default"),
                              "default" \in DOMAIN rule))
  ELSE IF PyEq(rule_type(rule), StrV(<<"const">>)) THEN HasValue(RuleGet(rule, "value"))
  ELSE IF "value" \in DOMAIN rule THEN HasValue(rule.value)
  ELSE IF "default" \in DOMAIN rule THEN HasValue(rule.default)
  ELSE NoValue(current)

\* overlay_write that takes every rule to override.
overlay_write_always(v, rule, d, out_key, found, current) ==
  IF ~v.ok THEN [ok |-> FALSE, result |-> d, exc |-> v.exc]
  ELSE IF ~v.has_value THEN [ok |-> TRUE, result |-> d, exc |-> NoExc]
  ELSE [ok |-> TRUE, result |-> set_nested(d, out_key, Leaf(v.val)), exc |-> NoExc]

\* The write of a candidate's value (src lines 565-571): [ok, result, exc].
overlay_write(v, rule, d, out_key, found, current) ==
  IF ~v.ok THEN [ok |-> FALSE, result |-> d, exc |-> v.exc]
  ELSE IF ~v.has_value THEN [ok |-> TRUE, result |-> d, exc |-> NoExc]
  ELSE IF ("override" \notin DOMAIN rule \/ rule.override) \/ ~found \/ current.tag = "none"
  THEN [ok |-> TRUE, result |-> set_nested(d, out_key, Leaf(v.val)), exc |-> NoExc]
  ELSE [ok |-> TRUE, result |-> d, exc |-> NoExc]

\* `for rule in rules` (src lines 560-572): the first candidate without a
\* when, or whose when matches, is resolved and the loop ends.
overlay_candidates(items, d, out_key, found, current, ids) ==
  LET skip[k \in 0..Len(items)] ==
        \* what testing candidates 1..k gave: "next", "hit" (at .at) or "raise"
        IF k = 0 THEN [st |-> "next", at |-> 0, exc |-> NoExc]
        ELSE IF skip[k - 1].st # "next" THEN skip[k - 1]
        ELSE IF "when" \notin DOMAIN items[k] THEN [st |-> "hit", at |-> k, exc |-> NoExc]
        ELSE IF ~matches_when(items[k].when, d, ids).ok
        THEN [st |-> "raise", at |-> k, exc |-> matches_when(items[k].when, d, ids).exc]
        ELSE IF matches_when(items[k].when, d, ids).val
        THEN [st |-> "hit", at |-> k, exc |-> NoExc]
        ELSE [st |-> "next", at |-> 0, exc |-> NoExc]
      last == skip[Len(items)]
  IN  IF last.st = "raise" THEN [ok |-> FALSE, result |-> d, exc |-> last.exc]
      ELSE IF last.st = "next" THEN [ok |-> TRUE, result |-> d, exc |-> NoExc]
      ELSE overlay_write(resolve_rule_value(items[last.at],
                                            IF found THEN TreeValue(current) ELSE None),
                         items[last.at], d, out_key, found, TreeValue(current))

\* The entry once its output value is looked up.
overlay_found(o, items, d, out_key, ids) ==
  IF ~o.ok THEN [ok |-> FALSE, result |-> d, exc |-> o.exc]
  ELSE overlay_candidates(items, d, out_key, o.found, o.current, ids)

\* One iteration of `for out_key, raw_rule in map_data.items()`.
overlay_entry(n, d, out_key, ids) ==
  IF ~n.ok THEN [ok |-> FALSE, result |-> d, exc |-> n.exc]
  ELSE IF n.items = <<>> THEN [ok |-> TRUE, result |-> d, exc |-> NoExc]
  ELSE overlay_found(get_output_value(d, out_key), n.items, d, out_key, ids)

\* _apply_map_rules: [ok, result, exc].
apply_map_rules(d, doc, src) ==
  LET step[k \in 0..Len(doc)] ==
        IF k = 0 THEN [ok |-> TRUE, result |-> d, exc |-> NoExc]
        ELSE IF ~step[k - 1].ok THEN step[k - 1]
        ELSE overlay_entry(normalize_map_rules(doc[k].raw), step[k - 1].result,
                           doc[k].key, get_source_ids(src))
  IN step[Len(doc)]

(* ------------------------------ map files ------------------------------ *)
\* The map files on disk are a function from resolved paths to what
\* yaml.safe_load gives for the file: [kind |-> "null"] for an empty file,
\* [kind |-> "dict", items |-> the map document] for a mapping and
\* [kind |-> "scalar"] for anything else.  An optional path is <<>> for None
\* and <<path>> otherwise.

NoMapFiles == [f \in {} |-> <<>>]

\* The working directory of the process.
Cwd == <<"/", "work">>

\* spec.get("__meta__"): <<>> for None, else <<meta>>.
spec_meta(spec) ==
  IF \E k \in DOMAIN spec : spec[k].key = <<"__meta__">>
  THEN <<spec[CHOOSE k \in DOMAIN spec : spec[k].key = <<"__meta__">>].rule>>
  ELSE <<>>

\* _resolve_map_path: [ok, path, exc], path optional.
resolve_map_path(value, base, fs) ==
  IF value = <<>> THEN [ok |-> TRUE, path |-> <<>>, exc |-> NoExc]
  ELSE LET path == IF is_absolute(value[1]) THEN value[1]
                   ELSE Resolve((IF base # <<>> THEN base[1] ELSE Cwd) \o value[1])
       IN  IF Resolve(path) \notin DOMAIN fs
           THEN [ok |-> FALSE, path |-> <<>>, exc |-> Exc("FileNotFoundError", <<path>>)]
           ELSE [ok |-> TRUE, path |-> <<path>>, exc |-> NoExc]

\* The map file shape: each entry is a map rule or a list of map rules.
validate_map_data(data) ==
  IF data.kind = "dict"
     /\ \A k \in DOMAIN data.items :
          \/ data.items[k].raw.kind = "dict"
          \/ /\ data.items[k].raw.kind = "list"
             /\ \A j \in DOMAIN data.items[k].raw.items :
                  "tag" \notin DOMAIN data.items[k].raw.items[j]
  THEN NoExc
  ELSE Exc("ValueError", <<"Invalid map file">>)

\* _read_map_file: [ok, data, exc].
read_map_file(path, fs) ==
  LET data == fs[Resolve(path)]
  IN  IF data.kind = "null" THEN [ok |-> TRUE, data |-> <<>>, exc |-> NoExc]
      ELSE IF validate_map_data(data) # NoExc
      THEN [ok |-> FALSE, data |-> <<>>, exc |-> validate_map_data(data)]
      ELSE [ok |-> TRUE, exc |-> NoExc,
            data |-> IF data.kind = "dict" THEN data.items ELSE <<>>]

\* The map file once its path is resolved.
read_resolved(resolved, fs) ==
  IF ~resolved.ok THEN [ok |-> FALSE, data |-> <<>>, exc |-> resolved.exc]
  ELSE IF resolved.path = <<>> THEN [ok |-> TRUE, data |-> <<>>, exc |-> NoExc]
  ELSE read_map_file(resolved.path[1], fs)

\* _load_map_data: [ok, data, exc]; map_file is the optional override.
load_map_data(spec, map_file, fs) ==
  IF map_file # <<>> THEN read_resolved(resolve_map_path(map_file, <<>>, fs), fs)
  ELSE IF spec_meta(spec) = <<>> THEN [ok |-> TRUE, data |-> <<>>, exc |-> NoExc]
  ELSE LET meta == spec_meta(spec)[1]
       IN  read_resolved(
             resolve_map_path(
               IF "map_file" \in DOMAIN meta THEN <<meta.map_file>> ELSE <<>>,
               IF "__spec_path__" \in DOMAIN meta THEN <<parent(meta["__spec_path__"])>>
               ELSE <<>>,
               fs),
             fs)

\* The end of map_parameters (src lines 499-501) for the result r of the
\* rule loop: the overlay is applied when the map data is not empty.
map_overlay(r, map_data, source) ==
  IF ~r.ok \/ map_data = <<>> THEN r
  ELSE [ok |-> apply_map_rules(r.result, map_data, source).ok,
        result |-> IF apply_map_rules(r.result, map_data, source).ok
                   THEN apply_map_rules(r.result, map_data, source).result
                   ELSE r.result,
        calls |-> r.calls,
        exc |-> apply_map_rules(r.result, map_data, source).exc]

\* The rule loop over spec from an empty result: [ok, result, exc, calls].
map_rules(source, spec, transforms) ==
  LET step[k \in 0..Len(spec)] ==
        IF k = 0
        THEN [ok |-> TRUE, result |-> Leaf(DictNode), calls |-> <<>>, exc |-> NoExc]
        ELSE IF ~step[k - 1].ok \/ spec[k].key = <<"__meta__">> THEN step[k - 1]
        ELSE map_rule(source, spec[k].key, spec[k].rule, transforms,
                      step[k - 1].result, step[k - 1].calls)
  IN step[Len(spec)]

\* map_parameters as one call: the check of a study-like source, the load of
\* the map data, the rule loop and the overlay; returns [ok, result, exc,
\* calls].
map_parameters(source, spec, transforms, map_file, fs) ==
  IF is_study_like(source) /\ enforce_study_rules(spec) # NoExc
  THEN [ok |-> FALSE, result |-> Leaf(DictNode), calls |-> <<>>,
        exc |-> enforce_study_rules(spec)]
  ELSE IF ~load_map_data(spec, map_file, fs).ok
  THEN [ok |-> FALSE, result |-> Leaf(DictNode), calls |-> <<>>,
        exc |-> load_map_data(spec, map_file, fs).exc]
  ELSE map_overlay(map_rules(source, spec, transforms),
                   load_map_data(spec, map_file, fs).data, source)

(* ------------------------------ inputs ------------------------------- *)

\* Bounds of the inputs the specifications draw from.
MaxSources == 2
MaxRules == 2
MaxInputs == 2

Keys == {"k1", "k2"}

\* The transform registry of the runs: echo(a), pick(a, b=None), count(**kw),
\* inc(x), only(*, a), and decode(x), which is bytes([200 + x]).decode("utf-8").
Param(name, kind, dflt) == [name |-> name, kind |-> kind, dflt |-> dflt]
Transforms ==
  [echo  |-> [params |-> <<Param("a", "POSITIONAL_OR_KEYWORD", FALSE)>>, body |-> "echo"],
   pick  |-> [params |-> <<Param("a", "POSITIONAL_OR_KEYWORD", FALSE),
                           Param("b", "POSITIONAL_OR_KEYWORD", TRUE)>>, body |-> "pick"],
   count |-> [params |-> <<Param("kw", "VAR_KEYWORD", FALSE)>>, body |-> "count"],
   inc   |-> [params |-> <<Param("x", "POSITIONAL_OR_KEYWORD", FALSE)>>, body |-> "inc"],
   only  |-> [params |-> <<Param("a", "KEYWORD_ONLY", FALSE)>>, body |-> "echo"],
   decode |-> [params |-> <<Param("x", "POSITIONAL_OR_KEYWORD", FALSE)>>, body |-> "decode"]]

\* The value a parameter table holds under a key, when it holds one that is
\* not None: distinct for each (file, key), so that a value names its origin.
CellValue(file, key) ==
  IntV((IF file = "method" THEN 0 ELSE 2) + (IF key = "k1" THEN 1 ELSE 2))

\* The parameter tables of a file: each key is absent, None or CellValue.
TablesOf(file) ==
  UNION {{[k \in D |-> IF k \in N THEN None ELSE CellValue(file, k)] : N \in SUBSET D}
         : D \in SUBSET Keys}

NoRecos == [r \in {} |-> <<>>]

\* Scan-like objects: method and acqp always exist, subject may be missing.
ScanSources ==
  {[kind |-> "scan", recos |-> NoRecos,
    tables |-> ("method" :> m) @@ ("acqp" :> [k \in {} |-> None]) @@ sub]
   : m \in TablesOf("method"),
     sub \in {[f \in {} |-> <<>>]} \cup {("subject" :> t) : t \in TablesOf("subject")}}

\* Study-like objects: only subject.
StudySources ==
  {[kind |-> "study", recos |-> NoRecos, tables |-> ("subject" :> t)]
   : t \in TablesOf("subject")}

FileDesc(file, key) == [file |-> file, key |-> key]
FileDescs == {FileDesc(f, k) : f \in {"method", "subject"}, k \in Keys}

SeqsUpTo(S, n) == UNION {[1..k -> S] : k \in 0..n}

Item(key, rule) == [key |-> key, rule |-> rule]
In(name, spec) == [name |-> name, spec |-> spec]

(* ------------------------------- state ------------------------------- *)

VARIABLES
  source,    \* map_parameters: the source argument
  spec,      \* map_parameters: the spec argument
  map_pc,    \* "idle" | "start" | "loop" | "done" | "raised"
  map_i,     \* index in spec of the next rule of the loop
  result,    \* the output tree
  map_exc,   \* the exception map_parameters raised
  calls,     \* the transform bodies executed, in order
  map_file,  \* map_parameters: the map_file argument, <<>> for None
  map_files, \* the map files on disk, by resolved path
  map_data,  \* the local `map_data`
  spec_source, \* load_spec: the spec_source argument
  files,     \* load_spec: the spec and transform files on disk, by resolved path
  frames,    \* load_spec: the active calls of _load_spec_data, outermost first
  stack,     \* load_spec: the set of paths being loaded (the `stack` argument)
  load_pc,   \* "idle" | "run" | "unwind" | "done" | "raised"
  load_exc,  \* the exception load_spec raised
  load_ret,  \* what load_spec returned
  rules,     \* select_rule_use: the rules argument
  base,      \* select_rule_use: the base argument
  resolve_paths, \* select_rule_use: the resolve_paths argument
  sel_pc,    \* "idle" | "loop" | "done" | "raised"
  sel_i,     \* index in rules of the next rule of the loop
  selected,  \* the local `selected`
  sel_exc,   \* the exception select_rule_use raised
  par_in,    \* Parser: the str argument of the call
  par_pc,    \* "idle" | "convert" | "clean" | "loop" | "complex" | "pass" | "done" | "raised"
  par_out,   \* what the call returned
  par_exc,   \* the exception the call raised
  elements,  \* clean_up_elements_in_array: the elements not yet replaced
  data,      \* clean_up_elements_in_array: the local `data`
  data_holder, \* process_complexarray: the local `data_holder`
  parser,    \* process_complexarray: the local `parser`, level -> groups
  level      \* process_complexarray: the local `level`

mapVars == <<source, spec, map_pc, map_i, result, map_exc, calls, map_file, map_files, map_data>>
loadVars == <<spec_source, files, frames, stack, load_pc, load_exc, load_ret>>
selVars == <<rules, base, resolve_paths, sel_pc, sel_i, selected, sel_exc>>
parVars == <<par_in, par_pc, par_out, par_exc, elements, data, data_holder, parser, level>>
vars == <<mapVars, loadVars, selVars, parVars>>

NoFiles == [f \in {} |-> <<>>]
NoRet == [spec |-> <<>>, transforms_path |-> <<>>, transforms |-> <<>>]

LoadRest ==
  /\ spec_source = <<>>
  /\ frames = <<>>
  /\ stack = {}
  /\ load_pc = "idle"
  /\ load_exc = NoExc
  /\ load_ret = NoRet

LoadIdle == files = NoFiles /\ LoadRest

ParRest ==
  /\ par_out = None
  /\ par_exc = NoExc
  /\ elements = {}
  /\ data = <<>>
  /\ data_holder = <<>>
  /\ parser = <<>>
  /\ level = 1

ParIdle == par_in = <<>> /\ par_pc = "idle" /\ ParRest

SelIdle ==
  /\ rules = <<>>
  /\ base = <<>>
  /\ resolve_paths = FALSE
  /\ sel_pc = "idle"
  /\ sel_i = 1
  /\ selected = None
  /\ sel_exc = NoExc

\* map_parameters(source, spec, Transforms, map_file=...) is called with the
\* map files of disk on disk.
MapInitWith(sources, specs, map_file_args, disks) ==
  /\ source \in sources
  /\ spec \in specs
  /\ map_file \in map_file_args
  /\ map_files \in disks
  /\ map_pc = "start"
  /\ map_i = 1
  /\ result = EmptyDict
  /\ map_exc = NoExc
  /\ calls = <<>>
  /\ map_data = <<>>
  /\ LoadIdle
  /\ SelIdle
  /\ ParIdle

\* The call without a map_file argument and without map files on disk.
MapInit(sources, specs) == MapInitWith(sources, specs, {<<>>}, {NoMapFiles})

\* map_parameters up to the rule loop (src lines 470-477).
map_begin ==
  /\ map_pc = "start"
  /\ IF is_study_like(source) /\ enforce_study_rules(spec) # NoExc
     THEN /\ map_pc' = "raised"
          /\ map_exc' = enforce_study_rules(spec)
          /\ UNCHANGED map_data
     ELSE IF ~load_map_data(spec, map_file, map_files).ok
     THEN /\ map_pc' = "raised"
          /\ map_exc' = load_map_data(spec, map_file, map_files).exc
          /\ UNCHANGED map_data
     ELSE /\ map_pc' = "loop"
          /\ map_data' = load_map_data(spec, map_file, map_files).data
          /\ UNCHANGED map_exc
  /\ UNCHANGED <<source, spec, map_i, result, calls, map_file, map_files>>
  /\ UNCHANGED <<loadVars, selVars, parVars>>

\* One iteration of `for out_key, rule in spec.items()` (src lines 478-498);
\* r is what map_rule gave for the rule at map_i.
map_loop_step(r) ==
  IF spec[map_i].key = <<"__meta__">>
  THEN /\ map_i' = map_i + 1
       /\ UNCHANGED <<map_pc, result, map_exc, calls>>
  ELSE IF r.ok
  THEN /\ map_i' = map_i + 1
       /\ result' = r.result
       /\ calls' = r.calls
       /\ UNCHANGED <<map_pc, map_exc>>
  ELSE /\ map_pc' = "raised"
       /\ map_exc' = r.exc
       /\ calls' = r.calls
       /\ UNCHANGED <<map_i, result>>

map_loop ==
  /\ map_pc = "loop"
  /\ map_i <= Len(spec)
  /\ map_loop_step(map_rule(source, spec[map_i].key, spec[map_i].rule, Transforms,
                            result, calls))
  /\ UNCHANGED <<source, spec, map_file, map_files, map_data>>
  /\ UNCHANGED <<loadVars, selVars, parVars>>

\* The loop is over: the overlay of the map data, if any, and the return of
\* result (src lines 499-501); r is what _apply_map_rules gave.
map_return_step(r) ==
  IF map_data = <<>>
  THEN /\ map_pc' = "done"
       /\ UNCHANGED <<result, map_exc>>
  ELSE IF r.ok
  THEN /\ map_pc' = "done"
       /\ result' = r.result
       /\ UNCHANGED map_exc
  ELSE /\ map_pc' = "raised"
       /\ map_exc' = r.exc
       /\ UNCHANGED result

map_return ==
  /\ map_pc = "loop"
  /\ map_i > Len(spec)
  /\ map_return_step(apply_map_rules(result, map_data, source))
  /\ UNCHANGED <<source, spec, map_i, calls, map_file, map_files, map_data>>
  /\ UNCHANGED <<loadVars, selVars, parVars>>

NextMap == map_begin \/ map_loop \/ map_return

\* The steps add up to map_parameters.
MapStepsAgree ==
  /\ map_pc = "done" =>
        map_parameters(source, spec, Transforms, map_file, map_files)
          = [ok |-> TRUE, result |-> result, calls |-> calls, exc |-> NoExc]
  /\ map_pc = "raised" =>
        /\ ~map_parameters(source, spec, Transforms, map_file, map_files).ok
        /\ map_parameters(source, spec, Transforms, map_file, map_files).exc = map_exc

(* ---- rules resolved from sources ---- *)

SourcesSpecs ==
  {<<Item(<<"out">>, [sources |-> s])>> : s \in SeqsUpTo(FileDescs, MaxSources)}

InitSources == MapInit(ScanSources, SourcesSpecs)
SpecSources == InitSources /\ [][NextMap]_vars

\* The value descriptor d points at: None when the file has no table or the
\* table has no such key.
DescValue(src, d) ==
  IF d.file \notin DOMAIN src.tables THEN None
  ELSE IF d.key \notin DOMAIN src.tables[d.file] THEN None
  ELSE src.tables[d.file][d.key]

Min(S) == CHOOSE x \in S : \A y \in S : x <= y

\* The value of the first descriptor of ds that points at a non-null value.
FirstNonNull(src, ds) ==
  LET hits == {k \in DOMAIN ds : DescValue(src, ds[k]) # None}
  IN  IF hits = {} THEN None ELSE DescValue(src, ds[Min(hits)])

\* C2: a rule resolved from a `sources` list gets the value of the first
\* descriptor whose parameter table yields a non-null value; a descriptor whose
\* key is absent or whose value is null is passed over.
C2_FirstNonNullWins ==
  map_pc = "done" =>
    result = Graft(EmptyDict, <<"out">>, Leaf(FirstNonNull(source, spec[1].rule.sources)))

(* ---- rules computed from inputs ---- *)

\* A dict entry that may be missing: opt is <<>> or <<value>>.
Field(name, opt) == IF Len(opt) = 0 THEN [x \in {} |-> None] ELSE (name :> opt[1])

\* Scans whose method table holds k1 as absent, None or a value, and nothing else.
K1Scans ==
  {s \in ScanSources : "subject" \notin DOMAIN s.tables /\ "k2" \notin DOMAIN s.tables["method"]}

\* The input specs: every combination of the six fields.
InputSpecs ==
  {Field("const", c) @@ Field("ref", r) @@ Field("sources", s) @@ Field("default", d)
     @@ Field("required", q) @@ Field("transform", t)
   : c \in {<<>>, <<IntV(7)>>},
     r \in {<<>>, <<<<"p">>>>, <<<<"q">>>>},
     s \in {<<>>, <<<<FileDesc("method", "k1")>>>>},
     d \in {<<>>, <<IntV(8)>>, <<None>>},
     q \in {<<>>, <<TRUE>>, <<FALSE>>},
     t \in {<<>>, <<<<"inc">>>>}}

\* p: {inputs: {a: {const: 5}}, transform: echo}
\* out: {inputs: {a: <input spec>}(, transform: echo | count)}
InputSpecSpecs ==
  {<<Item(<<"p">>, [inputs |-> <<In("a", [const |-> IntV(5)])>>, transform |-> <<"echo">>]),
     Item(<<"out">>, [inputs |-> <<In("a", i)>>] @@ Field("transform", t))>>
   : i \in InputSpecs, t \in {<<>>, <<<<"echo">>>>, <<<<"count">>>>}}

InitInputs == MapInit(K1Scans, InputSpecSpecs)
SpecInputs == InitInputs /\ [][NextMap]_vars

\* The rule `out` of a SpecInputs run, its one input spec, and whether the
\* loop is past it (it stored its value, or raised).
OutRule == spec[2].rule
OutInput == OutRule.inputs[1].spec
OutStored == map_i = 3
OutRaised == map_pc = "raised" /\ map_i = 2

\* The value the rule `out` had for its input a: the entry a of the dict it
\* stored, or of the keywords its transform was called with.
InputSeen ==
  IF "transform" \in DOMAIN OutRule
  THEN SubTree(calls[Len(calls)].arg, <<"a">>)
  ELSE SubTree(result, <<"out", "a">>)

Val(v) == [raises |-> FALSE, type |-> "", val |-> v]
Err(type) == [raises |-> TRUE, type |-> type, val |-> Leaf(None)]

\* The input-level transform of the runs is inc.
Chained(i, v) ==
  IF "transform" \notin DOMAIN i THEN Val(Leaf(v))
  ELSE IF v.tag = "int" THEN Val(Leaf(IntV(v.i + 1)))
  ELSE Err("TypeError")

SourcesOf(i) == IF "sources" \in DOMAIN i THEN i.sources ELSE <<>>

\* const -> ref -> first matching source -> default -> required-error -> null
OrderOutcome(src, ctx, i) ==
  IF "const" \in DOMAIN i THEN Val(Leaf(i.const))
  ELSE IF "ref" \in DOMAIN i
  THEN Val(IF i.ref \in DOMAIN ctx THEN SubTree(ctx, i.ref) ELSE Leaf(None))
  ELSE IF FirstNonNull(src, SourcesOf(i)) # None
  THEN Chained(i, FirstNonNull(src, SourcesOf(i)))
  ELSE IF "default" \in DOMAIN i THEN Chained(i, i.default)
  ELSE IF "required" \in DOMAIN i /\ i.required THEN Err("KeyError")
  ELSE Val(Leaf(None))

Unresolved(i) ==
  /\ DOMAIN i \cap {"const", "ref", "default"} = {}
  /\ FirstNonNull(source, SourcesOf(i)) = None

\* C9: an input without const/ref/default whose sources yield nothing raises
\* the missing-required-value error naming the input spec when required is
\* true; otherwise it is null and is passed under its name to the transform.
C9_RequiredOrNull ==
  ((OutStored \/ OutRaised) /\ Unresolved(OutInput)) =>
    IF "required" \in DOMAIN OutInput /\ OutInput.required
    THEN /\ OutRaised
         /\ map_exc.type = "KeyError"
         /\ map_exc.msg[4] = <<"Required input missing", OutInput>>
    ELSE /\ OutStored
         /\ InputSeen = Leaf(None)
         /\ "transform" \in DOMAIN OutRule =>
              /\ calls[Len(calls)].name = OutRule.transform[1]
              /\ <<"a">> \in DOMAIN calls[Len(calls)].arg

\* A non-required unresolved input reached the rule's transform as a = None.
C9_Witness ==
  /\ map_pc = "done"
  /\ Unresolved(OutInput)
  /\ "required" \notin DOMAIN OutInput
  /\ "transform" \in DOMAIN OutRule
  /\ calls[Len(calls)].arg[<<"a">>] = None

\* The required input was missing and map_parameters raised.
C9_WitnessRaised ==
  OutRaised /\ Unresolved(OutInput) /\ map_exc.type = "KeyError"

(* ---- the keywords of a rule's transform ---- *)

KwNames == {"a", "b", "c"}
KwValue(n) == IF n = "a" THEN IntV(1) ELSE IF n = "b" THEN IntV(2) ELSE None

\* The inputs blocks of at most MaxInputs const inputs, in every order.
KwInputs ==
  {[k \in DOMAIN ns |-> In(ns[k], [const |-> KwValue(ns[k])])]
   : ns \in {x \in SeqsUpTo(KwNames, MaxInputs) :
               \A j, k \in DOMAIN x : j # k => x[j] # x[k]}}

\* The transforms of the rule: each registered transform, a name that is not
\* registered, the empty list and two chains.
KwTransforms ==
  {<<t>> : t \in DOMAIN Transforms \cup {"nope"}}
    \cup {<<>>, <<"pick", "inc">>, <<"only", "echo">>}

KwSpecs == {<<Item(<<"out">>, [inputs |-> i, transform |-> t])>> : i \in KwInputs, t \in KwTransforms}

InitKwargs == MapInit({CHOOSE s \in K1Scans : TRUE}, KwSpecs)
SpecKwargs == InitKwargs /\ [][NextMap]_vars

\* The signature of the head transform of the rule: the names it requires,
\* the names it may take, whether it takes arbitrary keywords.
KwHead == spec[1].rule.transform[1]
KwGiven == {spec[1].rule.inputs[k].name : k \in DOMAIN spec[1].rule.inputs}
KwRequired ==
  {q.name : q \in {x \in ParamsOf(Transforms[KwHead]) : x.kind \in Named /\ ~x.dflt}}
KwOptional ==
  {q.name : q \in {x \in ParamsOf(Transforms[KwHead]) : x.kind \in Named /\ x.dflt}}
KwChecked ==
  /\ Len(spec[1].rule.transform) > 0
  /\ KwHead \in DOMAIN Transforms
  /\ \A q \in ParamsOf(Transforms[KwHead]) : q.kind # "VAR_KEYWORD"
KwAccepted == KwRequired \subseteq KwGiven /\ KwGiven \subseteq KwRequired \cup KwOptional

\* C10: a transform that takes no arbitrary keywords is called only if the
\* input names hold every required parameter and nothing outside the required
\* and optional ones; otherwise a configuration error naming the transform and
\* the extra and missing keys is raised and the transform is not called.
C10_KwargsChecked ==
  (map_pc \in {"done", "raised"} /\ KwChecked) =>
    /\ calls # <<>> => KwAccepted
    /\ ~KwAccepted =>
         /\ map_pc = "raised"
         /\ map_exc.type = "ValueError"
         /\ map_exc.msg[4] = <<"kwargs mismatch", KwHead,
                               KwGiven \ (KwRequired \cup KwOptional),
                               KwRequired \ KwGiven>>
         /\ calls = <<>>

\* pick(a, b=None) was refused for the names {b, c}: c is extra, a is missing.
C10_Witness ==
  /\ map_pc = "raised"
  /\ KwChecked
  /\ KwGiven \ (KwRequired \cup KwOptional) # {}
  /\ KwRequired \ KwGiven # {}
  /\ calls = <<>>

(* ---- rules that refer to other rules ---- *)

RefKeys == {<<"p">>, <<"n", "q">>, <<"c">>}

\* key: {inputs: {a: {const: v}}, transform: echo}
Producer(key, v) ==
  Item(key, [inputs |-> <<In("a", [const |-> v])>>, transform |-> <<"echo">>])
\* key: {inputs: {x: {ref: r}}}
Consumer(key, r) == Item(key, [inputs |-> <<In("x", [ref |-> r])>>])

RefItems ==
  {Producer(k, v) : k \in RefKeys, v \in {IntV(5), IntV(6)}}
    \cup {Consumer(k, r) : k \in RefKeys, r \in RefKeys \cup {<<"n">>}}

RefSpecs == SeqsUpTo(RefItems, MaxRules) \ {<<>>}

InitRefs == MapInit({CHOOSE s \in K1Scans : TRUE}, RefSpecs)
SpecRefs == InitRefs /\ [][NextMap]_vars

IsProducer(item) == "transform" \in DOMAIN item.rule
IsConsumer(item) == ~IsProducer(item)
RefOf(item) == item.rule.inputs[1].spec.ref
Overlap(k, p) == IsPrefix(k, p) \/ IsPrefix(p, k)
Max(S) == CHOOSE x \in S : \A y \in S : x >= y

\* The rules before rule j that wrote at, above or below path p.
Writers(j, p) == {i \in 1..(j - 1) : Overlap(spec[i].key, p)}

\* C4: rules are evaluated in mapping order, so an input `ref: p` yields the
\* value an earlier rule wrote at p, and yields null, without raising, when no
\* earlier rule wrote there (p is produced by a later rule only, or never).
C4_RefSeesEarlierRules ==
  [][(map_pc = "loop" /\ map_i <= Len(spec) /\ IsConsumer(spec[map_i])) =>
       /\ map_pc' = "loop"
       /\ Writers(map_i, RefOf(spec[map_i])) = {} =>
            SubTree(result', spec[map_i].key \o <<"x">>) = Leaf(None)
       /\ (/\ Writers(map_i, RefOf(spec[map_i])) # {}
           /\ IsProducer(spec[Max(Writers(map_i, RefOf(spec[map_i])))])
           /\ spec[Max(Writers(map_i, RefOf(spec[map_i])))].key = RefOf(spec[map_i])) =>
            SubTree(result', spec[map_i].key \o <<"x">>) =
              Leaf(spec[Max(Writers(map_i, RefOf(spec[map_i])))].rule.inputs[1].spec.const)
    ]_vars

\* A forward reference: the first rule refers to the key of the second, which
\* is written after it; the first rule got null.
C4_Witness ==
  /\ map_pc = "done"
  /\ Len(spec) = 2
  /\ IsConsumer(spec[1]) /\ IsProducer(spec[2])
  /\ spec[1].key = <<"c">>
  /\ RefOf(spec[1]) = spec[2].key
  /\ result[<<"c", "x">>] = None
  /\ result[spec[2].key] # None

(* ---- study-like sources ---- *)

OutNames == <<"o1", "o2", "o3", "o4">>

StudyDescs == {FileDesc("subject", "k1"), FileDesc("method", "k1")}
Inline(d) == [inputs |-> <<In("a", [sources |-> <<d>>])>>]

\* Rules with one descriptor at each place a spec can hold one: a rule's
\* sources, an input's sources, and the inputs of an inline descriptor of
\* either; and a rule with no descriptor.
StudyRules ==
  {[sources |-> <<d>>] : d \in StudyDescs \cup {Inline(x) : x \in StudyDescs}}
    \cup {[inputs |-> <<In("a", [sources |-> <<d>>])>>]
          : d \in StudyDescs \cup {Inline(x) : x \in StudyDescs}}
    \cup {[inputs |-> <<In("a", [const |-> IntV(1)])>>]}

StudySpecs ==
  {[k \in DOMAIN rs |-> Item(<<OutNames[k]>>, rs[k])] : rs \in SeqsUpTo(StudyRules, MaxRules) \ {<<>>}}

InitStudy == MapInit(StudySources \cup {CHOOSE s \in K1Scans : TRUE}, StudySpecs)
SpecStudy == InitStudy /\ [][NextMap]_vars

\* The files of every source descriptor of a spec, the nested ones included.
RECURSIVE FilesOfSources(_)
RECURSIVE FilesOfInputs(_)
FilesOfSources(ds) ==
  UNION {IF "inputs" \in DOMAIN ds[k] THEN FilesOfInputs(ds[k].inputs) ELSE {ds[k].file}
         : k \in DOMAIN ds}
FilesOfInputs(ins) ==
  UNION {IF "sources" \in DOMAIN ins[k].spec THEN FilesOfSources(ins[k].spec.sources) ELSE {}
         : k \in DOMAIN ins}
FilesOfSpec(sp) ==
  UNION {(IF "sources" \in DOMAIN sp[k].rule THEN FilesOfSources(sp[k].rule.sources) ELSE {})
           \cup (IF "inputs" \in DOMAIN sp[k].rule THEN FilesOfInputs(sp[k].rule.inputs) ELSE {})
         : k \in DOMAIN sp}

\* map_parameters raised before the rule loop.
RaisedAtStart ==
  /\ map_pc = "raised"
  /\ map_i = 1
  /\ result = EmptyDict
  /\ calls = <<>>
  /\ map_exc.msg[1] # "Error mapping"

\* C8: for a study-like source map_parameters raises before evaluating any
\* rule unless every source descriptor anywhere in the spec has file subject
\* and at least one exists.
C8_StudyOnlySubject ==
  (is_study_like(source) /\ map_pc # "start") =>
    \/ FilesOfSpec(spec) = {"subject"}
    \/ RaisedAtStart

(* ------------------------------ load_spec ------------------------------ *)
\* A YAML mapping is a sequence of [key, value] items in document order with
\* the "__meta__" entry kept apart in `meta` (<<>> when the file has none);
\* a Python dict built at run time is the same sequence in insertion order.

\* A Path is the sequence of its parts; the root directory is the part "/".

\* dir / item, resolved (src lines 101-103).
Join(dir, item) == Resolve(IF is_absolute(item) THEN item ELSE dir \o item)

\* Path.suffix, for the file names of the model.
suffix(path) ==
  IF path = <<>> THEN ""
  ELSE IF path[Len(path)] \in {"A.yaml", "B.yaml", "C.yaml", "a.yaml", "b.yaml", "gone.yaml"}
  THEN ".yaml"
  ELSE IF path[Len(path)] \in {"t1.py", "t2.py"} THEN ".py"
  ELSE IF path[Len(path)] \in {"notes.txt"} THEN ".txt"
  ELSE ""

HasKey(d, k) == \E i \in DOMAIN d : d[i].key = k

\* d.setdefault(k, v): the first value of a key stays.
DictSet_first_stays(d, k, v) ==
  IF HasKey(d, k) THEN d ELSE Append(d, [key |-> k, value |-> v])

\* d[k] = v: a key already present keeps its position, a new key goes last.
DictSet(d, k, v) ==
  IF HasKey(d, k)
  THEN [i \in DOMAIN d |-> IF d[i].key = k THEN [key |-> k, value |-> v] ELSE d[i]]
  ELSE Append(d, [key |-> k, value |-> v])

DictGet(d, k) == d[CHOOSE i \in DOMAIN d : d[i].key = k].value

\* rec.get(k) is truthy, for a string and for a list.
TruthyStr(rec, k) == k \in DOMAIN rec /\ rec[k] # ""
TruthyList(rec, k) == k \in DOMAIN rec /\ rec[k] # <<>>

\* _normalize_transforms_source: each item that is not absolute is taken
\* from the directory of the spec.
normalize_transforms_source(transforms_source, base_dir) ==
  [i \in DOMAIN transforms_source |-> Join(base_dir, transforms_source[i])]

\* _collect_transforms_paths: the file's own transforms_source, then the
\* ones of the "__meta__" of each top-level value, in document order.
collect_transforms_paths(doc, spec_path) ==
  LET own == IF doc.meta # <<>> /\ TruthyList(doc.meta[1], "transforms_source")
             THEN normalize_transforms_source(doc.meta[1].transforms_source, parent(spec_path))
             ELSE <<>>
      child[k \in 0..Len(doc.items)] ==
        IF k = 0 THEN <<>>
        ELSE IF "__meta__" \in DOMAIN doc.items[k].value
                /\ TruthyList(doc.items[k].value["__meta__"], "transforms_source")
        THEN child[k - 1]
             \o normalize_transforms_source(doc.items[k].value["__meta__"].transforms_source,
                                            parent(spec_path))
        ELSE child[k - 1]
  IN own \o child[Len(doc.items)]

\* The merge loops without the check that include_mode "strict" asks for.
merge_items_unchecked(merged, items, include_mode, spec_path) ==
  LET step[k \in 0..Len(items)] ==
        IF k = 0 THEN [ok |-> TRUE, merged |-> merged, exc |-> NoExc]
        ELSE IF items[k].key = "__meta__" THEN step[k - 1]
        ELSE [ok |-> TRUE, exc |-> NoExc,
              merged |-> DictSet(step[k - 1].merged, items[k].key, items[k].value)]
  IN step[Len(items)]

\* The two merge loops of _load_spec_data (src lines 106-111 and 113-118):
\* items go into merged one by one; under "strict" a key already in merged
\* raises, and the items before it have been merged.
merge_items(merged, items, include_mode, spec_path) ==
  LET step[k \in 0..Len(items)] ==
        IF k = 0 THEN [ok |-> TRUE, merged |-> merged, exc |-> NoExc]
        ELSE IF ~step[k - 1].ok THEN step[k - 1]
        ELSE IF items[k].key = "__meta__" THEN step[k - 1]
        ELSE IF include_mode = "strict" /\ HasKey(step[k - 1].merged, items[k].key)
        THEN [ok |-> FALSE, merged |-> step[k - 1].merged,
              exc |-> Exc("ValueError",
                          <<"Spec include conflict for key", items[k].key, spec_path>>)]
        ELSE [ok |-> TRUE, exc |-> NoExc,
              merged |-> DictSet(step[k - 1].merged, items[k].key, items[k].value)]
  IN step[Len(items)]

LoadFail(type, msg) == [ok |-> FALSE, exc |-> Exc(type, msg), frame |-> <<>>]

\* The entry of _load_spec_data without the check of the path against stack.
load_open_reentrant(fs, path, stk) ==
  IF Resolve(path) \notin DOMAIN fs \/ ~fs[Resolve(path)].mapping
  THEN LoadFail("FileNotFoundError", <<Resolve(path)>>)
  ELSE [ok |-> TRUE, exc |-> NoExc,
        frame |->
          [spec_path |-> Resolve(path),
           spec |-> fs[Resolve(path)],
           transforms_paths |-> collect_transforms_paths(fs[Resolve(path)], Resolve(path)),
           include_mode |-> "override",
           include_list |->
             IF fs[Resolve(path)].meta # <<>>
                /\ "include" \in DOMAIN fs[Resolve(path)].meta[1]
             THEN fs[Resolve(path)].meta[1].include ELSE <<>>,
           idx |-> 1,
           merged |-> <<>>]]

\* _load_spec_data from its entry to the include loop (src lines 72-98):
\* the checks on the path and on the document, and the locals of the call.
load_open(fs, path, stk) ==
  IF Resolve(path) \in stk
  THEN LoadFail("ValueError", <<"Circular spec include detected", Resolve(path)>>)
  ELSE IF suffix(Resolve(path)) \notin {".yaml", ".yml"}
  THEN LoadFail("ValueError", <<"Spec file must be a .yaml/.yml file.">>)
  ELSE IF Resolve(path) \notin DOMAIN fs
  THEN LoadFail("FileNotFoundError", <<Resolve(path)>>)
  ELSE IF ~fs[Resolve(path)].mapping
  THEN LoadFail("ValueError", <<"Spec file must contain a mapping.">>)
  ELSE IF fs[Resolve(path)].meta # <<>>
          /\ TruthyStr(fs[Resolve(path)].meta[1], "include_mode")
          /\ fs[Resolve(path)].meta[1].include_mode \notin {"override", "strict"}
  THEN LoadFail("ValueError", <<"include_mode must be 'override' or 'strict'.">>)
  ELSE [ok |-> TRUE, exc |-> NoExc,
        frame |->
          [spec_path |-> Resolve(path),
           spec |-> fs[Resolve(path)],
           transforms_paths |-> collect_transforms_paths(fs[Resolve(path)], Resolve(path)),
           include_mode |->
             IF fs[Resolve(path)].meta # <<>>
                /\ TruthyStr(fs[Resolve(path)].meta[1], "include_mode")
             THEN fs[Resolve(path)].meta[1].include_mode ELSE "override",
           include_list |->
             IF fs[Resolve(path)].meta # <<>>
                /\ "include" \in DOMAIN fs[Resolve(path)].meta[1]
             THEN fs[Resolve(path)].meta[1].include ELSE <<>>,
           idx |-> 1,
           merged |-> <<>>]]

\* The end of _load_spec_data (src lines 120-126): "__meta__" without its
\* include keys goes last in merged.
with_meta_clean(merged, doc) ==
  IF doc.meta = <<>> THEN merged
  ELSE DictSet(merged, "__meta__",
               [f \in DOMAIN doc.meta[1] \ {"include", "include_mode"} |-> doc.meta[1][f]])

\* load_spec, src lines 153-159: duplicates go, the first occurrence stays.
dedupe(paths) ==
  LET step[k \in 0..Len(paths)] ==
        IF k = 0 THEN <<>>
        ELSE IF \E i \in 1..(k - 1) : paths[i] = paths[k] THEN step[k - 1]
        ELSE Append(step[k - 1], paths[k])
  IN step[Len(paths)]

\* _attach_spec_path_meta: the top-level "__meta__" and the "__meta__" of
\* each top-level value get "__spec_path__".
attach_spec_path_meta(doc, spec_path) ==
  [i \in DOMAIN doc |->
     IF doc[i].key = "__meta__"
     THEN [key |-> "__meta__", value |-> ("__spec_path__" :> spec_path) @@ doc[i].value]
     ELSE IF "__meta__" \in DOMAIN doc[i].value
     THEN [key |-> doc[i].key,
           value |-> [doc[i].value EXCEPT !["__meta__"] = ("__spec_path__" :> spec_path) @@ @]]
     ELSE doc[i]]

NoTransforms == [n \in {} |-> ""]

\* read_transforms in which the first source that defines a name keeps it.
read_transforms_first_stays(fs, transforms_path) ==
  LET step[k \in 0..Len(transforms_path)] ==
        IF k = 0 THEN [ok |-> TRUE, transforms |-> NoTransforms, exc |-> NoExc]
        ELSE IF ~step[k - 1].ok THEN step[k - 1]
        ELSE IF transforms_path[k] \notin DOMAIN fs
        THEN [ok |-> FALSE, transforms |-> NoTransforms,
              exc |-> Exc("FileNotFoundError", <<transforms_path[k]>>)]
        ELSE [ok |-> TRUE, exc |-> NoExc,
              transforms |-> step[k - 1].transforms @@ fs[transforms_path[k]].callables]
  IN step[Len(transforms_path)]

\* load_spec, src lines 166-168: each transform file is read and its
\* callables update the registry, so a later file replaces a name of an
\* earlier one.
read_transforms(fs, transforms_path) ==
  LET step[k \in 0..Len(transforms_path)] ==
        IF k = 0 THEN [ok |-> TRUE, transforms |-> NoTransforms, exc |-> NoExc]
        ELSE IF ~step[k - 1].ok THEN step[k - 1]
        ELSE IF transforms_path[k] \notin DOMAIN fs
        THEN [ok |-> FALSE, transforms |-> NoTransforms,
              exc |-> Exc("FileNotFoundError", <<transforms_path[k]>>)]
        ELSE [ok |-> TRUE, exc |-> NoExc,
              transforms |-> fs[transforms_path[k]].callables @@ step[k - 1].transforms]
  IN step[Len(transforms_path)]

\* load_spec after _load_spec_data returned (src lines 152-169).
load_spec_tail(read, merged, transforms_paths, src) ==
  IF read.ok
  THEN [ok |-> TRUE, exc |-> NoExc,
        ret |-> [spec |-> attach_spec_path_meta(merged, src),
                 transforms_path |-> dedupe(transforms_paths),
                 transforms |-> read.transforms]]
  ELSE [ok |-> FALSE, exc |-> read.exc, ret |-> NoRet]

\* load_spec as one call: what the steps of the calls below add up to.
\* load (inc) is what _load_spec_data gave for the item at frame.idx, and m
\* what merging it gave; a call is the record of its locals.
RECURSIVE load_spec_data(_, _, _)
RECURSIVE include_loop(_, _, _)

LoadRaise(exc) == [ok |-> FALSE, exc |-> exc, merged |-> <<>>, transforms_paths |-> <<>>]

include_local(m, frame) ==
  IF ~m.ok THEN LoadRaise(m.exc)
  ELSE [ok |-> TRUE, exc |-> NoExc,
        merged |-> with_meta_clean(m.merged, frame.spec),
        transforms_paths |-> frame.transforms_paths]

include_merged(m, inc, fs, frame, stk) ==
  IF ~m.ok THEN LoadRaise(m.exc)
  ELSE include_loop(fs,
                    [frame EXCEPT !.merged = m.merged,
                                  !.idx = @ + 1,
                                  !.transforms_paths = @ \o inc.transforms_paths],
                    stk)

include_next(inc, fs, frame, stk) ==
  IF ~inc.ok THEN inc
  ELSE include_merged(merge_items(frame.merged, inc.merged, frame.include_mode,
                                  frame.spec_path),
                      inc, fs, frame, stk)

include_loop(fs, frame, stk) ==
  IF frame.idx > Len(frame.include_list)
  THEN include_local(merge_items(frame.merged, frame.spec.items, frame.include_mode,
                                 frame.spec_path),
                     frame)
  ELSE include_next(load_spec_data(fs,
                                   Join(parent(frame.spec_path),
                                        frame.include_list[frame.idx]),
                                   stk),
                    fs, frame, stk)

load_opened(o, fs, stk) ==
  IF ~o.ok THEN LoadRaise(o.exc)
  ELSE include_loop(fs, o.frame, stk \cup {o.frame.spec_path})

load_spec_data(fs, path, stk) == load_opened(load_open(fs, path, stk), fs, stk)

load_spec_loaded(loaded, fs, spec_path) ==
  IF ~loaded.ok THEN [ok |-> FALSE, exc |-> loaded.exc, ret |-> NoRet]
  ELSE load_spec_tail(read_transforms(fs, dedupe(loaded.transforms_paths)),
                      loaded.merged, loaded.transforms_paths, spec_path)

load_spec(fs, spec_path) == load_spec_loaded(load_spec_data(fs, spec_path, {}), fs, spec_path)

Top == frames[Len(frames)]
Caller == frames[Len(frames) - 1]
Popped == SubSeq(frames, 1, Len(frames) - 1)

\* The result of load_open reaches the caller: a new call of _load_spec_data
\* is active with its path in stack, or the exception leaves the call.
load_call_step(r) ==
  IF r.ok
  THEN /\ frames' = Append(frames, r.frame)
       /\ stack' = stack \cup {r.frame.spec_path}
       /\ UNCHANGED <<load_pc, load_exc, load_ret>>
  ELSE /\ load_exc' = r.exc
       /\ load_pc' = IF frames = <<>> THEN "raised" ELSE "unwind"
       /\ UNCHANGED <<frames, stack, load_ret>>

\* load_spec calls _load_spec_data(spec_path, set()), or the include loop
\* of the innermost call calls it for its next item (src lines 100-104).
load_call ==
  /\ load_pc = "run"
  /\ frames # <<>> => Top.idx <= Len(Top.include_list)
  /\ load_call_step(load_open(files,
                              IF frames = <<>> THEN spec_source
                              ELSE Join(parent(Top.spec_path), Top.include_list[Top.idx]),
                              stack))
  /\ UNCHANGED <<spec_source, files>>
  /\ UNCHANGED <<mapVars, selVars, parVars>>

\* The outermost call returned to load_spec, which finishes.
load_return_root(t) ==
  /\ frames' = <<>>
  /\ stack' = stack \ {Top.spec_path}
  /\ load_pc' = IF t.ok THEN "done" ELSE "raised"
  /\ load_exc' = t.exc
  /\ load_ret' = t.ret

\* load_return_include without the finally clause of the call that returns.
load_return_include_path_kept(m) ==
  /\ stack' = stack
  /\ UNCHANGED load_ret
  /\ IF m.ok
     THEN /\ frames' = [Popped EXCEPT ![Len(Popped)] =
                          [@ EXCEPT !.merged = m.merged,
                                    !.idx = @ + 1,
                                    !.transforms_paths = @ \o Top.transforms_paths]]
          /\ UNCHANGED <<load_pc, load_exc>>
     ELSE /\ frames' = Popped
          /\ load_pc' = "unwind"
          /\ load_exc' = m.exc

\* An included spec returned to the include loop of its caller, which
\* merges it (src lines 105-111).
load_return_include(m) ==
  /\ stack' = stack \ {Top.spec_path}
  /\ UNCHANGED load_ret
  /\ IF m.ok
     THEN /\ frames' = [Popped EXCEPT ![Len(Popped)] =
                          [@ EXCEPT !.merged = m.merged,
                                    !.idx = @ + 1,
                                    !.transforms_paths = @ \o Top.transforms_paths]]
          /\ UNCHANGED <<load_pc, load_exc>>
     ELSE /\ frames' = Popped
          /\ load_pc' = "unwind"
          /\ load_exc' = m.exc

\* local is what the merge of the call's own keys gave (src lines 113-118).
load_return_step(local) ==
  IF ~local.ok
  THEN /\ load_pc' = "unwind"
       /\ load_exc' = local.exc
       /\ UNCHANGED <<frames, stack, load_ret>>
  ELSE IF Len(frames) = 1
  THEN load_return_root(
         load_spec_tail(read_transforms(files, dedupe(Top.transforms_paths)),
                        with_meta_clean(local.merged, Top.spec),
                        Top.transforms_paths, spec_source))
  ELSE load_return_include(
         merge_items(Caller.merged, with_meta_clean(local.merged, Top.spec),
                     Caller.include_mode, Caller.spec_path))

\* The include loop of the innermost call is over: it merges its own keys
\* and returns through its finally clause (src lines 113-128).
load_return ==
  /\ load_pc = "run"
  /\ frames # <<>>
  /\ Top.idx > Len(Top.include_list)
  /\ load_return_step(merge_items(Top.merged, Top.spec.items, Top.include_mode,
                                  Top.spec_path))
  /\ UNCHANGED <<spec_source, files>>
  /\ UNCHANGED <<mapVars, selVars, parVars>>

\* An exception leaves the innermost call through its finally clause
\* (src lines 127-128).
load_unwind ==
  /\ load_pc = "unwind"
  /\ frames # <<>>
  /\ frames' = Popped
  /\ stack' = stack \ {Top.spec_path}
  /\ load_pc' = IF Len(frames) = 1 THEN "raised" ELSE "unwind"
  /\ UNCHANGED <<spec_source, files, load_exc, load_ret>>
  /\ UNCHANGED <<mapVars, selVars, parVars>>

NextLoad == load_call \/ load_return \/ load_unwind

MapRest ==
  /\ spec = <<>>
  /\ map_pc = "idle"
  /\ map_i = 1
  /\ result = EmptyDict
  /\ map_exc = NoExc
  /\ calls = <<>>
  /\ map_file = <<>>
  /\ map_files = NoMapFiles
  /\ map_data = <<>>

MapIdle ==
  /\ source = [kind |-> "scan", recos |-> NoRecos, tables |-> [f \in {} |-> <<>>]]
  /\ MapRest

LoadInit(sources, fss) ==
  /\ spec_source \in sources
  /\ files \in fss
  /\ frames = <<>>
  /\ stack = {}
  /\ load_pc = "run"
  /\ load_exc = NoExc
  /\ load_ret = NoRet
  /\ MapIdle
  /\ SelIdle
  /\ ParIdle

(* ---- specs that include specs ---- *)

MaxIncludes == 2

SpecNames == {<<"A.yaml">>, <<"B.yaml">>, <<"C.yaml">>}

\* A rule is tagged with the file that wrote it.
RulesOf(name, keys) == [i \in DOMAIN keys |-> [key |-> keys[i], value |-> [from |-> name]]]

SpecFile(name, include, include_mode, keys, transforms_source) ==
  [mapping |-> TRUE,
   meta |-> <<Field("include", include) @@ Field("include_mode", include_mode)
              @@ Field("transforms_source", transforms_source)>>,
   items |-> RulesOf(name, keys)]

BareFile(name, keys) == [mapping |-> TRUE, meta |-> <<>>, items |-> RulesOf(name, keys)]

TransformFiles ==
  (<<"t1.py">> :> [callables |-> [f |-> Transforms.echo, g |-> Transforms.inc]])
  @@ (<<"t2.py">> :> [callables |-> [f |-> Transforms.count]])

\* The root spec: any list of includes among the three specs, or one include
\* that is another spelling of itself, a missing file or not a YAML file.
AFiles ==
  {SpecFile(<<"A.yaml">>, <<inc>>, mode, keys, <<<<<<"t1.py">>>>>>)
   : inc \in (SeqsUpTo(SpecNames, MaxIncludes) \ {<<>>})
             \cup {<<<<".", "A.yaml">>>>, <<<<"gone.yaml">>>>, <<<<"notes.txt">>>>},
     mode \in {<<>>, <<"strict">>},
     keys \in {<<>>, <<"x">>, <<"x", "y">>}}
  \cup {SpecFile(<<"A.yaml">>, <<>>, mode, keys, <<<<<<"t1.py">>>>>>)
        : mode \in {<<>>, <<"strict">>}, keys \in {<<>>, <<"x">>, <<"x", "y">>}}

BFiles ==
  {SpecFile(<<"B.yaml">>, inc, mode, keys, <<<<<<"t2.py">>>>>>)
   : inc \in {<<>>} \cup {<<<<n>>>> : n \in SpecNames},
     mode \in {<<>>, <<"strict">>},
     keys \in {<<"x">>, <<"y", "x">>}}
  \cup {[mapping |-> FALSE]}

CFiles ==
  {BareFile(<<"C.yaml">>, <<"x">>), BareFile(<<"C.yaml">>, <<"y">>),
   SpecFile(<<"C.yaml">>, <<<<<<"B.yaml">>>>>>, <<>>, <<"y">>, <<<<<<"t1.py">>>>>>),
   SpecFile(<<"C.yaml">>, <<>>, <<"merge">>, <<"x">>, <<>>)}

IncludeFiles ==
  {(<<"A.yaml">> :> a) @@ (<<"B.yaml">> :> b) @@ (<<"C.yaml">> :> c) @@ TransformFiles
   : a \in AFiles, b \in BFiles, c \in CFiles}

Loadable(fs, path) == path \in DOMAIN fs /\ fs[path].mapping
LocalKeys(fs, path) ==
  IF Loadable(fs, path) THEN {fs[path].items[i].key : i \in DOMAIN fs[path].items} ELSE {}
IncludesOf(fs, path) ==
  IF Loadable(fs, path) /\ fs[path].meta # <<>> /\ "include" \in DOMAIN fs[path].meta[1]
  THEN fs[path].meta[1].include ELSE <<>>

InitLoad == LoadInit({<<"A.yaml">>}, IncludeFiles)
SpecLoad == InitLoad /\ [][NextLoad]_vars

\* The calls of the steps add up to load_spec.
LoadStepsAgree ==
  /\ load_pc = "done" => load_spec(files, spec_source) = [ok |-> TRUE, exc |-> NoExc, ret |-> load_ret]
  /\ load_pc = "raised" => load_spec(files, spec_source) = [ok |-> FALSE, exc |-> load_exc, ret |-> NoRet]

\* The include graphs alone: every spec is an override spec with one key.
CycleFiles ==
  {f \in IncludeFiles :
     \A n \in SpecNames :
       f[n].mapping => /\ LocalKeys(f, n) \in {{"x"}, {"y"}}
                       /\ f[n].meta # <<>> => "include_mode" \notin DOMAIN f[n].meta[1]}

\* load_spec is sequential code: a call that can take its next step takes it.
InitCycles == LoadInit({<<"A.yaml">>}, CycleFiles)
SpecCycles == InitCycles /\ [][NextLoad]_vars /\ WF_vars(NextLoad)

Root == files[Resolve(spec_source)]
RootMode ==
  IF Root.meta # <<>> /\ "include_mode" \in DOMAIN Root.meta[1]
  THEN Root.meta[1].include_mode ELSE "override"

\* The output keys a spec brings to a merge: its own and those of the specs
\* it includes, n levels deep (as deep as there are specs: every level of a
\* chain of includes without a cycle).
RECURSIVE KeysOfSpec(_, _, _)
KeysOfSpec(fs, path, n) ==
  IF n = 0 \/ ~Loadable(fs, path) THEN {}
  ELSE LocalKeys(fs, path)
       \cup UNION {KeysOfSpec(fs, Join(parent(path), IncludesOf(fs, path)[j]), n - 1)
                   : j \in DOMAIN IncludesOf(fs, path)}

Depth == Cardinality(SpecNames)
IncludeKeys(j) == KeysOfSpec(files, Join(<<>>, IncludesOf(files, <<"A.yaml">>)[j]), Depth)

\* The keys that two of the root's includes, or an include and the root
\* itself, both contribute.
TwiceContributed ==
  {k \in {"x", "y"} :
     \/ \E i, j \in DOMAIN IncludesOf(files, <<"A.yaml">>) :
          i < j /\ k \in IncludeKeys(i) /\ k \in IncludeKeys(j)
     \/ \E i \in DOMAIN IncludesOf(files, <<"A.yaml">>) :
          k \in IncludeKeys(i) /\ k \in LocalKeys(files, <<"A.yaml">>)}

\* Every include of the root is a spec that includes nothing and loads.
LeafIncludes ==
  \A j \in DOMAIN IncludesOf(files, <<"A.yaml">>) :
    LET inc == Join(<<>>, IncludesOf(files, <<"A.yaml">>)[j]) IN
      /\ inc \in SpecNames \ {<<"A.yaml">>}
      /\ Loadable(files, inc)
      /\ IncludesOf(files, inc) = <<>>
      /\ (files[inc].meta # <<>> /\ "include_mode" \in DOMAIN files[inc].meta[1])
           => files[inc].meta[1].include_mode \in {"override", "strict"}

\* C5: a strict spec to whose merge a key is contributed twice, by two of
\* its includes or by an include and its own keys, is never loaded: load_spec
\* returns no spec, and when the includes load by themselves it raises the
\* conflict error for such a key.
C5_StrictConflictRaises ==
  (load_pc # "idle" /\ RootMode = "strict" /\ TwiceContributed # {}) =>
    /\ load_pc # "done"
    /\ load_ret = NoRet
    /\ (load_pc = "raised" /\ LeafIncludes) =>
         /\ load_exc.type = "ValueError"
         /\ load_exc.msg[1] = "Spec include conflict for key"
         /\ load_exc.msg[2] \in TwiceContributed
         /\ load_exc.msg[3] = <<"A.yaml">>

C5_Witness ==
  /\ load_pc = "raised"
  /\ RootMode = "strict"
  /\ LeafIncludes
  /\ Root.items = <<>>
  /\ TwiceContributed = {"x"}
  /\ load_exc = Exc("ValueError", <<"Spec include conflict for key", "x", <<"A.yaml">>>>)

\* The file whose rule for k is the last one applied in the merge of path:
\* the spec's own, or else that of its last include that brings k.
RECURSIVE LastApplied(_, _, _, _)
LastApplied(fs, path, k, n) ==
  IF n = 0 \/ k \in LocalKeys(fs, path) THEN path
  ELSE LastApplied(fs,
         Join(parent(path), IncludesOf(fs, path)[
           Max({j \in DOMAIN IncludesOf(fs, path)
                : k \in KeysOfSpec(fs, Join(parent(path), IncludesOf(fs, path)[j]), n - 1)})]),
         k, n - 1)

SpecKeys(doc) == {doc[i].key : i \in DOMAIN doc} \ {"__meta__"}

\* C6: the spec load_spec returns for an override spec holds, for each key
\* of the spec or of its includes, the rule applied last: its own rule over
\* any include's, a later include's over an earlier one's.
C6_OverrideLastWins ==
  (load_pc = "done" /\ RootMode = "override") =>
    /\ SpecKeys(load_ret.spec) = KeysOfSpec(files, <<"A.yaml">>, Depth)
    /\ \A k \in SpecKeys(load_ret.spec) :
         DictGet(load_ret.spec, k).from = LastApplied(files, <<"A.yaml">>, k, Depth)

C6_Witness ==
  /\ load_pc = "done"
  /\ RootMode = "override"
  /\ IncludesOf(files, <<"A.yaml">>) = <<<<"B.yaml">>, <<"C.yaml">>>>
  /\ LocalKeys(files, <<"A.yaml">>) = {"x"}
  /\ LocalKeys(files, <<"B.yaml">>) = {"x", "y"}
  /\ LocalKeys(files, <<"C.yaml">>) = {"y"}
  /\ DictGet(load_ret.spec, "x").from = <<"A.yaml">>
  /\ DictGet(load_ret.spec, "y").from = <<"C.yaml">>

CallDue == load_pc = "run" /\ (frames # <<>> => Top.idx <= Len(Top.include_list))
Target ==
  IF frames = <<>> THEN Resolve(spec_source)
  ELSE Join(parent(Top.spec_path), Top.include_list[Top.idx])
Loading == {frames[i].spec_path : i \in DOMAIN frames}

\* C7: when the next include is a file that is still being loaded, the call
\* raises the circular-include error instead of loading it again; no file is
\* ever loaded inside its own load, and load_spec ends.
C7_CircularIncludeRaises ==
  /\ [][(CallDue /\ Target \in Loading) =>
          /\ load_exc' = Exc("ValueError", <<"Circular spec include detected", Target>>)
          /\ load_pc' = "unwind"
          /\ frames' = frames]_vars
  /\ [](\A i, j \in DOMAIN frames : frames[i].spec_path = frames[j].spec_path => i = j)
  /\ [](load_pc = "unwind" => load_exc # NoExc)
  /\ <>(load_pc \in {"done", "raised"})

C7_Witness ==
  /\ load_pc = "raised"
  /\ IncludesOf(files, <<"A.yaml">>) = <<<<"C.yaml">>>>
  /\ IncludesOf(files, <<"C.yaml">>) = <<<<"B.yaml">>>>
  /\ IncludesOf(files, <<"B.yaml">>) = <<<<"C.yaml">>>>
  /\ load_exc = Exc("ValueError", <<"Circular spec include detected", <<"C.yaml">>>>)

(* ------------------------------- rules ------------------------------- *)
\* The `if` expression language of rules/logic.py.  An expression is
\* [kind |-> "none"] (no `if`), [kind |-> "dict", items |-> <<[op, args]>>]
\* (a mapping, one item per operator it holds) or [kind |-> "other"].
\* The args of any and all are [kind |-> "list", items |-> expressions], of
\* not one expression, of a binary operator [kind |-> "list", items |->
\* operands]; args that are no list are [kind |-> "scalar"].  An operand is
\* [ref |-> name] for the string "$name", or [lit |-> v] with v an atom or
\* ListV of atoms.

\* _resolve_operand: bindings.get(name) for "$name", else the value itself.
resolve_operand(value, bindings) ==
  IF "ref" \in DOMAIN value
  THEN IF <<value.ref>> \in DOMAIN bindings THEN bindings[<<value.ref>>] ELSE None
  ELSE value.lit

\* left < right, or the TypeError of two values that have no order.
less(left, right) ==
  IF left.tag = "int" /\ right.tag = "int" THEN BoolOk(left.i < right.i)
  ELSE IF left.tag = "str" /\ right.tag = "str" THEN BoolOk(StrLess(left.s, right.s))
  ELSE BoolRaise("TypeError", <<"not supported between instances">>)

less_or_equal(left, right) ==
  IF PyEq(left, right) /\ left.tag \in {"int", "str"} THEN BoolOk(TRUE) ELSE less(left, right)

\* _eval_expr from the resolved operands on (src lines 82-121).
binary(op, left, right) ==
  IF left.tag = "none" \/ right.tag = "none"
  THEN (IF op = "eq" THEN BoolOk(PyEq(left, right))
        ELSE IF op = "ne" THEN BoolOk(~PyEq(left, right))
        ELSE BoolOk(FALSE))
  ELSE CASE op = "eq" -> BoolOk(PyEq(left, right))
         [] op = "ne" -> BoolOk(~PyEq(left, right))
         [] op = "in" ->
              IF right.tag = "list"
              THEN BoolOk(\E k \in DOMAIN right.items : PyEq(left, right.items[k]))
              ELSE BoolOk(right.tag = "str" /\ left.tag = "str" /\ Within(left.s, right.s))
         [] op = "regex" -> BoolOk(re_search(str(right), str(left)))
         [] op = "startswith" -> BoolOk(IsPrefix(str(right), str(left)))
         [] op = "contains" ->
              IF left.tag = "list"
              THEN BoolOk(\E k \in DOMAIN left.items : PyEq(right, left.items[k]))
              ELSE BoolOk(Within(str(right), str(left)))
         [] op = "gt" -> less(right, left)
         [] op = "ge" -> less_or_equal(right, left)
         [] op = "lt" -> less(left, right)
         [] op = "le" -> less_or_equal(left, right)
         [] OTHER -> BoolRaise("ValueError", <<"Unsupported operator", op>>)

negation(r) == IF r.ok THEN BoolOk(~r.val) ELSE r

RECURSIVE eval_expr(_, _)

\* any(...) and all(...) over a generator: the items after the one that
\* decides are not evaluated.
any_all(stop, items, bindings) ==
  LET step[k \in 0..Len(items)] ==
        IF k = 0 THEN BoolOk(~stop)
        ELSE IF ~step[k - 1].ok \/ step[k - 1].val = stop THEN step[k - 1]
        ELSE eval_expr(items[k], bindings)
  IN step[Len(items)]

\* _eval_expr: [ok, val, exc].
eval_expr(expr, bindings) ==
  IF expr.kind = "none" THEN BoolOk(TRUE)
  ELSE IF expr.kind # "dict"
  THEN BoolRaise("ValueError", <<"Rule if must be a mapping">>)
  ELSE IF Len(expr.items) # 1
  THEN BoolRaise("ValueError", <<"Rule if must contain a single operator.">>)
  ELSE IF expr.items[1].op \in {"any", "all"}
  THEN IF expr.items[1].args.kind # "list"
       THEN BoolRaise("TypeError", <<"object is not iterable">>)
       ELSE any_all(expr.items[1].op = "any", expr.items[1].args.items, bindings)
  ELSE IF expr.items[1].op = "not"
  THEN negation(eval_expr(expr.items[1].args, bindings))
  ELSE IF expr.items[1].args.kind # "list" \/ Len(expr.items[1].args.items) # 2
  THEN BoolRaise("ValueError", <<"Operator requires two arguments.", expr.items[1].op>>)
  ELSE binary(expr.items[1].op,
              resolve_operand(expr.items[1].args.items[1], bindings),
              resolve_operand(expr.items[1].args.items[2], bindings))

\* A rule is a record of the keys it holds among name, when, if, use,
\* __transforms__ and __spec_path__; use is an atom, a str being the parts
\* of the path it names; a list entry that is no mapping is an atom.
IsRule(rule) == "tag" \notin DOMAIN rule
UseIsStr(rule) == "use" \in DOMAIN rule /\ rule.use.tag = "str"

PathV(path) == Atom("path", 0, path)

\* _resolve_spec_path (rules/logic.py and apps/addon/core.py hold the same).
resolve_spec_path(use, root) ==
  IF is_absolute(use) THEN use
  ELSE IF use # <<>> /\ use[1] = "specs" THEN root \o use
  ELSE root \o <<"specs">> \o use

\* _looks_like_spec_path: a separator in use, a YAML suffix or a leading dot.
looks_like_spec_path(use) ==
  \/ Len(use) > 1
  \/ is_absolute(use)
  \/ suffix(use) \in {".yaml", ".yml"}
  \/ (use # <<>> /\ use[1] \in {".", ".."})

PathOk(path) == [ok |-> TRUE, path |-> path, exc |-> NoExc]
PathRaise(type, msg) == [ok |-> FALSE, path |-> <<>>, exc |-> Exc(type, msg)]

\* _resolve_spec_by_name over specs that carry at most one record per name:
\* the spec of the specs directory whose __meta__ holds the name.
resolve_spec_by_name(name, fs, root) ==
  LET records == {q \in DOMAIN fs :
                    /\ parent(q) = root \o <<"specs">>
                    /\ suffix(q) \in {".yaml", ".yml"}
                    /\ fs[q].mapping
                    /\ fs[q].meta # <<>>
                    /\ "name" \in DOMAIN fs[q].meta[1]
                    /\ fs[q].meta[1].name = name}
  IN IF records = {} THEN PathRaise("FileNotFoundError", <<"Spec name not found", name>>)
     ELSE PathOk(CHOOSE q \in records : TRUE)

\* _resolve_rule_use of a rule whose use is a str, through
\* resolve_spec_reference.
resolve_rule_use(rule, fs, root) ==
  IF looks_like_spec_path(rule.use.s)
  THEN IF resolve_spec_path(rule.use.s, root) \in DOMAIN fs
       THEN PathOk(resolve_spec_path(rule.use.s, root))
       ELSE PathRaise("FileNotFoundError",
                      <<resolve_spec_path(rule.use.s, root), "not found">>)
  ELSE resolve_spec_by_name(rule.use.s, fs, root)

TransformsOk(t) == [ok |-> TRUE, transforms |-> t, exc |-> NoExc]

loaded_transforms(loaded) ==
  IF loaded.ok THEN TransformsOk(loaded.ret.transforms)
  ELSE [ok |-> FALSE, transforms |-> NoTransforms, exc |-> loaded.exc]

resolved_transforms(spec_path, fs) ==
  IF ~spec_path.ok THEN [ok |-> FALSE, transforms |-> NoTransforms, exc |-> spec_path.exc]
  ELSE IF spec_path.path \in DOMAIN fs THEN loaded_transforms(load_spec(fs, spec_path.path))
  ELSE TransformsOk(NoTransforms)

\* _load_rule_transforms: [ok, transforms, exc].
load_rule_transforms(rule, fs, root) ==
  IF "__transforms__" \in DOMAIN rule THEN TransformsOk(rule["__transforms__"])
  ELSE IF ~UseIsStr(rule) THEN TransformsOk(NoTransforms)
  ELSE IF "__spec_path__" \in DOMAIN rule
  THEN loaded_transforms(load_spec(fs, rule["__spec_path__"]))
  ELSE resolved_transforms(resolve_rule_use(rule, fs, root), fs)

matches_eval(e, rule) ==
  IF e.ok THEN e
  ELSE BoolRaise("ValueError",
                 <<"Rule evaluation failed",
                   IF "name" \in DOMAIN rule THEN rule.name ELSE "<unnamed>", e.exc.msg>>)

matches_bound(bindings, rule) ==
  IF ~bindings.ok THEN [ok |-> FALSE, val |-> FALSE, exc |-> bindings.exc]
  ELSE matches_eval(eval_expr(IF "if" \in DOMAIN rule THEN rule["if"] ELSE [kind |-> "none"],
                              bindings.result),
                    rule)

matches_with(transforms, src, rule) ==
  IF ~transforms.ok THEN [ok |-> FALSE, val |-> FALSE, exc |-> transforms.exc]
  ELSE matches_bound(map_parameters(src, rule.when, transforms.transforms, <<>>, NoMapFiles),
                     rule)

\* rule_matches: [ok, val, exc].
rule_matches(src, rule, fs, root) ==
  IF "when" \notin DOMAIN rule
  THEN BoolRaise("ValueError", <<"Rule 'when' must be a mapping.">>)
  ELSE matches_with(load_rule_transforms(rule, fs, root), src, rule)

\* What a rule whose use is a str sets selected to (src lines 174-181).
rule_reference(rule, root, paths) ==
  IF ~paths THEN rule.use
  ELSE IF "__spec_path__" \in DOMAIN rule THEN PathV(rule["__spec_path__"])
  ELSE PathV(resolve_spec_path(rule.use.s, root))

\* The selection that stays with the first rule that set it.
select_update_first_stays(sel, rule, root, paths) ==
  IF sel.tag # "none" THEN sel
  ELSE IF UseIsStr(rule) THEN rule_reference(rule, root, paths)
  ELSE sel

\* selected after a rule that matches (src lines 172-181).
select_update(sel, rule, root, paths) ==
  IF UseIsStr(rule) THEN rule_reference(rule, root, paths) ELSE sel

\* select_step that passes over a rule that raises once a rule has matched.
select_step_raise_ignored_once_selected(m) ==
  IF ~m.ok /\ selected = None
  THEN /\ sel_pc' = "raised"
       /\ sel_exc' = m.exc
       /\ UNCHANGED <<sel_i, selected>>
  ELSE /\ sel_i' = sel_i + 1
       /\ selected' = IF m.ok /\ m.val
                      THEN select_update(selected, rules[sel_i], base, resolve_paths)
                      ELSE selected
       /\ UNCHANGED <<sel_pc, sel_exc>>

\* m is what rule_matches gave for the rule at sel_i.
select_step(m) ==
  IF ~m.ok
  THEN /\ sel_pc' = "raised"
       /\ sel_exc' = m.exc
       /\ UNCHANGED <<sel_i, selected>>
  ELSE /\ sel_i' = sel_i + 1
       /\ selected' = IF m.val
                      THEN select_update(selected, rules[sel_i], base, resolve_paths)
                      ELSE selected
       /\ UNCHANGED <<sel_pc, sel_exc>>

\* One iteration of `for rule in rules` (src lines 168-181).
select_loop ==
  /\ sel_pc = "loop"
  /\ sel_i <= Len(rules)
  /\ IF ~IsRule(rules[sel_i])
     THEN /\ sel_i' = sel_i + 1
          /\ UNCHANGED <<sel_pc, selected, sel_exc>>
     ELSE select_step(rule_matches(source, rules[sel_i], files, base))
  /\ UNCHANGED <<rules, base, resolve_paths>>
  /\ UNCHANGED <<mapVars, loadVars, parVars>>

\* The loop is over: return selected (src line 182).
select_return ==
  /\ sel_pc = "loop"
  /\ sel_i > Len(rules)
  /\ sel_pc' = "done"
  /\ UNCHANGED <<rules, base, resolve_paths, sel_i, selected, sel_exc>>
  /\ UNCHANGED <<mapVars, loadVars, parVars>>

NextSelect == select_loop \/ select_return

SelectInit(sources, fss, roots, rule_lists) ==
  /\ source \in sources
  /\ MapRest
  /\ files \in fss
  /\ LoadRest
  /\ rules \in rule_lists
  /\ base \in roots
  /\ resolve_paths \in BOOLEAN
  /\ sel_pc = "loop"
  /\ sel_i = 1
  /\ selected = None
  /\ sel_exc = NoExc
  /\ ParIdle

(* ---- rule lists ---- *)

CfgRoot == <<"/", "cfg">>
SpecsDir == CfgRoot \o <<"specs">>

\* The installed specs: a.yaml names the transforms of t1.py, b.yaml none.
SelectFiles ==
  (SpecsDir \o <<"a.yaml">> :>
     SpecFile(SpecsDir \o <<"a.yaml">>, <<>>, <<>>, <<"x">>, <<<<<<"t1.py">>>>>>))
  @@ (SpecsDir \o <<"b.yaml">> :> BareFile(SpecsDir \o <<"b.yaml">>, <<"x">>))
  @@ (SpecsDir \o <<"t1.py">> :> [callables |-> [g |-> Transforms.inc]])

Binary(op, left, right) ==
  [kind |-> "dict",
   items |-> <<[op |-> op, args |-> [kind |-> "list", items |-> <<left, right>>]]>>]
AnyOf(exprs) ==
  [kind |-> "dict", items |-> <<[op |-> "any", args |-> [kind |-> "list", items |-> exprs]]>>]
Ref(name) == [ref |-> name]
Lit(v) == [lit |-> v]

\* when blocks: v is method.k1, as it is or through the transform g.
WhenK1 == <<Item(<<"v">>, [sources |-> <<FileDesc("method", "k1")>>])>>
WhenG == <<Item(<<"v">>, [sources |-> <<FileDesc("method", "k1")>>, transform |-> <<"g">>])>>

UseA == StrV(<<"a.yaml">>)
UseB == StrV(<<"specs", "b.yaml">>)

\* The entries of the rule lists: rules as load_rules leaves them (with
\* __transforms__ and __spec_path__) and as a caller writes them (without),
\* a rule whose use is not a str, rules that raise, and an entry that is
\* no mapping.
RuleSet ==
  {[name |-> "always", when |-> WhenK1, use |-> UseA,
    __transforms__ |-> NoTransforms, __spec_path__ |-> SpecsDir \o <<"a.yaml">>],
   [name |-> "one", when |-> WhenK1, if |-> Binary("eq", Ref("v"), Lit(IntV(1))),
    use |-> UseB, __transforms__ |-> NoTransforms],
   [name |-> "other", when |-> WhenK1, if |-> Binary("ne", Ref("v"), Lit(IntV(1))),
    use |-> UseA],
   [name |-> "two", when |-> WhenG, if |-> Binary("gt", Ref("v"), Lit(IntV(1))),
    use |-> UseB, __spec_path__ |-> SpecsDir \o <<"a.yaml">>],
   [name |-> "nouse", when |-> WhenK1, use |-> IntV(7)],
   [name |-> "mixed", when |-> WhenK1,
    if |-> AnyOf(<<Binary("eq", Ref("v"), Lit(IntV(2))),
                   Binary("lt", Ref("v"), Lit(StrV(<<"1">>)))>>),
    use |-> UseA, __transforms__ |-> NoTransforms],
   [name |-> "gone", when |-> WhenK1, use |-> StrV(<<"gone.yaml">>)],
   [name |-> "nowhen", use |-> UseA],
   StrV(<<"a">>)}

RuleLists == SeqsUpTo(RuleSet, MaxRules)

InitSelect == SelectInit(K1Scans, {SelectFiles}, {CfgRoot}, RuleLists)
SpecSelect == InitSelect /\ [][NextSelect]_vars

\* The entries of rules that are rules, match and name a spec.
Matching ==
  {k \in DOMAIN rules :
     /\ IsRule(rules[k])
     /\ rule_matches(source, rules[k], files, base).ok
     /\ rule_matches(source, rules[k], files, base).val
     /\ UseIsStr(rules[k])}

\* C1: select_rule_use returns the spec reference of the last entry of the
\* list that is a rule naming a spec and matches, whatever matched before
\* it, and None when there is no such entry.
C1_LastMatchWins ==
  sel_pc = "done" =>
    IF Matching = {} THEN selected = None
    ELSE selected = rule_reference(rules[Max(Matching)], base, resolve_paths)

C1_Witness ==
  /\ sel_pc = "done"
  /\ ~resolve_paths
  /\ Matching = {1, 2}
  /\ rules[1].use = UseA
  /\ rules[2].use = UseB
  /\ selected = UseB

(* ---- the transform chain of a rule resolved from sources ---- *)

MaxChain == 3

ChainNames == {"echo", "inc", "pick", "count", "nope"}

\* out: {sources: [{file: method, key: k1}], transform: <chain>}
ChainSpecs ==
  {<<Item(<<"out">>, [sources |-> <<FileDesc("method", "k1")>>, transform |-> t])>>
   : t \in SeqsUpTo(ChainNames, MaxChain)}

InitChain == MapInit(K1Scans, ChainSpecs)
SpecChain == InitChain /\ [][NextMap]_vars

ChainOf == spec[1].rule.transform
ChainRaw == Leaf(DescValue(source, spec[1].rule.sources[1]))

\* What the transform `name` does when it is called with the one value arg.
Returns(name, arg) ==
  IF name \notin DOMAIN Transforms THEN Raise("KeyError", <<name>>, <<>>)
  ELSE CallPos(name, Transforms[name], arg, <<>>)

\* The argument of the k-th call of the chain: the resolved value, then the
\* result of the call before it.
ChainArg(k) ==
  IF k = 1 THEN ChainRaw ELSE Returns(ChainOf[k - 1], calls[k - 1].arg).val

\* C11: the transforms of a rule resolved from sources are called in list
\* order, the first with the resolved value (null included) and each later one
\* with the result of the one before it; the rule's value is the last result,
\* and the chain stops only at a transform that raises.
C11_ChainLeftToRight ==
  map_pc \in {"done", "raised"} =>
    /\ Len(calls) <= Len(ChainOf)
    /\ \A k \in DOMAIN calls :
         /\ calls[k].name = ChainOf[k]
         /\ calls[k].arg = ChainArg(k)
         /\ k < Len(calls) => Returns(ChainOf[k], calls[k].arg).ok
    /\ map_pc = "done" =>
         /\ Len(calls) = Len(ChainOf)
         /\ result = Graft(EmptyDict, <<"out">>, ChainArg(Len(ChainOf) + 1))
    /\ map_pc = "raised" =>
         \/ calls # <<>> /\ ~Returns(ChainOf[Len(calls)], calls[Len(calls)].arg).ok
         \/ /\ Len(calls) < Len(ChainOf)
            /\ ~Returns(ChainOf[Len(calls) + 1], ChainArg(Len(calls) + 1)).ok

\* A null value went through pick, inc's result through echo.
C11_Witness ==
  /\ map_pc = "done"
  /\ ChainRaw = Leaf(None)
  /\ ChainOf = <<"pick", "echo", "pick">>
  /\ Len(calls) = 3
  /\ calls[3].arg = Leaf(None)

C11_WitnessOrder ==
  /\ map_pc = "done"
  /\ ChainOf = <<"inc", "echo", "inc">>
  /\ calls[1].arg = Leaf(IntV(1))
  /\ calls[2].arg = Leaf(IntV(2))
  /\ result[<<"out">>] = IntV(3)

(* ---- rules that raise ---- *)

ErrTransforms == {"echo", "inc", "decode", "nope", "count"}

\* o<k>: {sources: [{file: method, key: k1}], transform: <name>}
ErrSpecs ==
  {[k \in DOMAIN ts |->
      Item(<<OutNames[k]>>, [sources |-> <<FileDesc("method", "k1")>>, transform |-> <<ts[k]>>])]
   : ts \in SeqsUpTo(ErrTransforms, MaxRules) \ {<<>>}}

InitErr == MapInit(K1Scans, ErrSpecs)
SpecErr == InitErr /\ [][NextMap]_vars

\* The type of the exception raised while the rule is resolved ("" when none
\* is): nope is not registered, count(**kw) takes no positional argument, inc
\* and decode add to the value, and decode of an int fails to decode.
InnerType(src, rule) ==
  LET t == rule.transform[1]
      isInt == DescValue(src, rule.sources[1]).tag = "int"
  IN  CASE t = "echo" -> ""
        [] t = "nope" -> "KeyError"
        [] t = "count" -> "TypeError"
        [] t = "inc" -> IF isInt THEN "" ELSE "TypeError"
        [] t = "decode" -> IF isInt THEN "UnicodeDecodeError" ELSE "TypeError"

Raising == {k \in DOMAIN spec : InnerType(source, spec[k].rule) # ""}

\* C12: an exception raised while a rule is resolved is re-raised with the
\* same type and a message that carries the output key and the rule body;
\* evaluation stops at that rule and nothing is returned.
C12_RewrappedSameType ==
  /\ map_pc = "done" => Raising = {}
  /\ map_pc = "raised" =>
       /\ Raising # {}
       /\ map_i = Min(Raising)
       /\ map_exc.type = InnerType(source, spec[map_i].rule)
       /\ Len(map_exc.msg) = 4
       /\ map_exc.msg[1] = "Error mapping"
       /\ map_exc.msg[2] = spec[map_i].key
       /\ map_exc.msg[3] = spec[map_i].rule

(* ---- dotted output keys ---- *)

DotKeys == {<<"d">>, <<"a", "b">>, <<"a", "c">>, <<"a", "b", "c">>, <<"out", "scalar">>}

\* A scan whose method table holds k1 = 8.
ScalarScan ==
  [kind |-> "scan", recos |-> NoRecos,
   tables |-> ("method" :> ("k1" :> IntV(8))) @@ ("acqp" :> [k \in {} |-> None])]

\* key: {sources: [{file: method, key: k1}]}, or a Producer of 5 or 6.
DotItems ==
  {Producer(k, v) : k \in DotKeys, v \in {IntV(5), IntV(6)}}
    \cup {Item(k, [sources |-> <<FileDesc("method", "k1")>>]) : k \in DotKeys}

DotSpecs == SeqsUpTo(DotItems, MaxRules) \ {<<>>}

InitDots == MapInit({ScalarScan}, DotSpecs)
SpecDots == InitDots /\ [][NextMap]_vars

\* The value of a rule of DotItems.
DotValue(rule) ==
  IF "sources" \in DOMAIN rule THEN DescValue(source, rule.sources[1])
  ELSE rule.inputs[1].spec.const

\* C13: the value of a rule is written at its dotted key, with a map at every
\* proper prefix of the key, and a non-dotted key is a top-level key; what was
\* written beside the key stays, so sibling keys accumulate under one parent;
\* out.scalar from method k1 = 8 gives {"out": {"scalar": 8}}.
C13_DottedKeysNest ==
  /\ [][(map_pc = "loop" /\ map_i <= Len(spec)) =>
          /\ spec[map_i].key \in DOMAIN result'
          /\ SubTree(result', spec[map_i].key) = Leaf(DotValue(spec[map_i].rule))
          /\ \A n \in 1..(Len(spec[map_i].key) - 1) :
               result'[SubSeq(spec[map_i].key, 1, n)] = DictNode
          /\ \A q \in DOMAIN result :
               (~IsPrefix(q, spec[map_i].key) /\ ~IsPrefix(spec[map_i].key, q)) =>
                 q \in DOMAIN result' /\ result'[q] = result[q]
       ]_vars
  /\ []((map_pc = "done" /\ Len(spec) = 1 /\ spec[1].key = <<"out", "scalar">>
           /\ "sources" \in DOMAIN spec[1].rule) =>
         result = (<<>> :> DictNode) @@ (<<"out">> :> DictNode)
                    @@ (<<"out", "scalar">> :> IntV(8)))

\* a.c was written first and a.b after it: both are under the map a.
C13_Witness ==
  /\ map_pc = "done"
  /\ Len(spec) = 2
  /\ spec[1].key = <<"a", "c">>
  /\ spec[2].key = <<"a", "b">>
  /\ result[<<"a">>] = DictNode
  /\ result[<<"a", "c">>] = DotValue(spec[1].rule)
  /\ result[<<"a", "b">>] = DotValue(spec[2].rule)

C13_WitnessScalar ==
  /\ map_pc = "done"
  /\ Len(spec) = 1
  /\ spec[1].key = <<"out", "scalar">>
  /\ result[<<"out", "scalar">>] = IntV(8)

(* ---- the operands of a rule's `if` ---- *)

BinaryOps == {"eq", "ne", "in", "regex", "startswith", "contains", "gt", "ge", "lt", "le"}

\* $v is bound by the rule's when, $zz has no binding.
Operands ==
  {Ref("v"), Ref("zz"), Lit(IntV(1)), Lit(StrV(<<"1">>)), Lit(StrV(<<"a", "1">>)),
   Lit(ListV(<<IntV(1)>>))}

IsListOperand(x) == "lit" \in DOMAIN x /\ x.lit.tag = "list"

\* One rule `if: {op: [left, right]}`; the operators that take str() of an
\* operand are given scalars.
OperandRules ==
  {[name |-> "r", when |-> WhenK1, if |-> Binary(op, l, r), use |-> UseA,
    __transforms__ |-> NoTransforms]
   : op \in BinaryOps,
     l \in {x \in Operands : ~IsListOperand(x)},
     r \in Operands}
  \ {x \in [name : {"r"}, when : {WhenK1}, use : {UseA}, __transforms__ : {NoTransforms},
            if : {Binary(op, l, r) : op \in {"regex", "startswith", "contains"},
                  l \in Operands, r \in {y \in Operands : IsListOperand(y)}}] : TRUE}

InitOperands ==
  SelectInit(K1Scans, {SelectFiles}, {CfgRoot}, {<<r>> : r \in OperandRules})
SpecOperands == InitOperands /\ [][NextSelect]_vars

IfOp == rules[1]["if"].items[1].op
OperandValue(x) ==
  IF "lit" \in DOMAIN x THEN x.lit
  ELSE IF x.ref = "v" THEN DescValue(source, FileDesc("method", "k1"))
  ELSE None
IfLeft == OperandValue(rules[1]["if"].items[1].args.items[1])
IfRight == OperandValue(rules[1]["if"].items[1].args.items[2])

IfTrue == sel_pc = "done" /\ selected # None
IfFalse == sel_pc = "done" /\ selected = None

\* C14: with a None operand eq and ne compare normally and every other
\* operator is False without raising; `in` and `contains` are False, without
\* raising, when the right-hand operand is not iterable.
C14_NoneAndNonIterable ==
  sel_pc \in {"done", "raised"} =>
    /\ (IfLeft = None \/ IfRight = None) =>
         CASE IfOp = "eq" -> IF IfLeft = IfRight THEN IfTrue ELSE IfFalse
           [] IfOp = "ne" -> IF IfLeft # IfRight THEN IfTrue ELSE IfFalse
           [] OTHER -> IfFalse
    /\ (IfOp \in {"in", "contains"} /\ IfRight.tag = "int") => IfFalse

(* ---- the candidates of a map entry ---- *)

MaxCandidates == 3

\* A scan with scan_id 3 whose method table holds k1 = 8.
IdScan ==
  [kind |-> "scan", recos |-> NoRecos, scan_id |-> IntV(3),
   tables |-> ("method" :> ("k1" :> IntV(8))) @@ ("acqp" :> [k \in {} |-> None])]

\* when: {key: cond}
When(key, cond) == [kind |-> "dict", items |-> <<[key |-> key, cond |-> cond]>>]

\* The spec file /cfg/spec.yaml names map.yaml beside it.
MapPath == <<"/", "cfg", "map.yaml">>
MapMeta ==
  Item(<<"__meta__">>, [map_file |-> <<"map.yaml">>, __spec_path__ |-> <<"/", "cfg", "spec.yaml">>])

\* The disk that holds the map document doc.
MapDisk(doc) == (MapPath :> [kind |-> "dict", items |-> doc])

\* a: 1 and n: {m: 2}, with the meta block.
CandSpec == <<Producer(<<"a">>, IntV(1)), Producer(<<"n", "m">>, IntV(2)), MapMeta>>

\* The candidate of a kind that writes v: its when holds of a, fails of a,
\* names a key the tree lacks, holds of the scan id, holds of n.m, or is
\* absent; "novalue" has neither value nor default nor type.
CandKinds == {"hit", "miss", "missing", "id", "dotted", "none", "novalue"}
Candidate(kind, v) ==
  CASE kind = "hit" -> [when |-> When(<<"a">>, IntV(1)), value |-> IntV(v)]
    [] kind = "miss" -> [when |-> When(<<"a">>, IntV(2)), value |-> IntV(v)]
    [] kind = "missing" -> [when |-> When(<<"zz">>, IntV(1)), value |-> IntV(v)]
    [] kind = "id" -> [when |-> When(<<"ScanID">>, IntV(3)), value |-> IntV(v)]
    [] kind = "dotted" -> [when |-> When(<<"n", "m">>, IntV(2)), value |-> IntV(v)]
    [] kind = "none" -> [value |-> IntV(v)]
    [] OTHER -> [override |-> TRUE]

\* The candidate at place k of a list writes 10 + k.
CandLists ==
  {[k \in DOMAIN kinds |-> Candidate(kinds[k], 10 + k)]
   : kinds \in SeqsUpTo(CandKinds, MaxCandidates) \ {<<>>}}

\* One entry for a, b or n.m, alone or followed by an entry for c whose
\* candidate applies when the first candidate of a list was applied to a.
CandDocs ==
  {<<[key |-> key, raw |-> [kind |-> "list", items |-> items]]>> \o tail
   : key \in {<<"a">>, <<"b">>, <<"n", "m">>}, items \in CandLists,
     tail \in {<<>>, <<[key |-> <<"c">>,
                        raw |-> [kind |-> "dict",
                                 rule |-> [when |-> When(<<"a">>, IntV(11)),
                                           value |-> IntV(99)]]]>>}}

InitCandidates == MapInitWith({IdScan}, {CandSpec}, {<<>>}, {MapDisk(doc) : doc \in CandDocs})
SpecCandidates == InitCandidates /\ [][NextMap]_vars

\* What a `when` of the map document says of the output tree d: each key is
\* an alias of the scan or reco id, or a dotted path into d, and its value is
\* there and meets the condition.
WhenHolds(when, d) ==
  \A k \in DOMAIN when.items :
    LET key == when.items[k].key
        value == IF Len(key) = 1 /\ lower(key[1]) \in {"scanid", "scan_id"}
                 THEN source.scan_id
                 ELSE TreeValue(get_nested(d, key))
    IN  value.tag # "none" /\ PyEq(value, when.items[k].cond)

\* The first candidate of items whose when is absent or holds; 0 if none.
FirstApplicable(items, d) ==
  IF \E k \in DOMAIN items : "when" \notin DOMAIN items[k] \/ WhenHolds(items[k].when, d)
  THEN CHOOSE k \in DOMAIN items :
         /\ "when" \notin DOMAIN items[k] \/ WhenHolds(items[k].when, d)
         /\ \A j \in 1..(k - 1) : "when" \in DOMAIN items[j] /\ ~WhenHolds(items[j].when, d)
  ELSE 0

\* The candidates of an entry of the map documents above.
Candidates(entry) == IF entry.raw.kind = "list" THEN entry.raw.items ELSE <<entry.raw.rule>>

\* The tree after an entry: the value of the first applicable candidate is
\* written at the key, and nothing is written when there is no such
\* candidate or it yields no value.
AfterEntry(d, entry) ==
  LET k == FirstApplicable(Candidates(entry), d)
  IN  IF k = 0 \/ "value" \notin DOMAIN Candidates(entry)[k] THEN d
      ELSE set_nested(d, entry.key, Leaf(Candidates(entry)[k].value))

AfterEntries(d, doc) ==
  LET step[k \in 0..Len(doc)] == IF k = 0 THEN d ELSE AfterEntry(step[k - 1], doc[k])
  IN step[Len(doc)]

\* C15: for each output key of the map document, in file order, the first
\* candidate in list order whose `when` is absent or matches is the one
\* applied, and no later candidate is applied for that key, also when that
\* candidate yields no value.
C15_FirstCandidateOnly ==
  [][(map_pc = "loop" /\ map_i > Len(spec) /\ map_data # <<>>) =>
       /\ map_pc' = "done"
       /\ result' = AfterEntries(result, map_data)]_vars

(* ---- map rules that look the current value up ---- *)

Ch(c) == StrV(<<c>>)

\* values: {k: v, ...} as the items of the table.
Table(items) == [kind |-> "dict", items |-> items]
Entry(k, v) == [key |-> k, value |-> v]

LookupTables ==
  {Table(<<Entry(IntV(1), Ch("x")), Entry(Ch("2"), Ch("y"))>>),
   Table(<<Entry(Ch("1"), Ch("w")), Entry(IntV(1), Ch("x"))>>),
   Table(<<Entry(IntV(5), Ch("v"))>>)}

\* The mapping rules: type given or implied by values, with or without a
\* default, with or without a when (one that holds, one that does not).
LookupRules ==
  {Field("type", t) @@ Field("default", d) @@ Field("when", w) @@ [values |-> v]
   : t \in {<<>>, <<StrV(<<"mapping">>)>>},
     d \in {<<>>, <<Ch("z")>>},
     w \in {<<>>, <<When(<<"ScanID">>, IntV(3))>>, <<When(<<"a">>, IntV(77))>>},
     v \in LookupTables}

\* The current value of a: absent, an int or a list of ints.
LookupCurrents ==
  {<<>>, <<IntV(1)>>, <<IntV(2)>>, <<IntV(5)>>,
   <<ListV(<<IntV(1), IntV(5)>>)>>, <<ListV(<<IntV(2), IntV(1)>>)>>}

LookupSpecs ==
  {(IF c = <<>> THEN <<>> ELSE <<Producer(<<"a">>, c[1])>>) \o <<MapMeta>> : c \in LookupCurrents}

LookupDocs == {<<[key |-> <<"a">>, raw |-> [kind |-> "dict", rule |-> r]]>> : r \in LookupRules}

InitLookup == MapInitWith({IdScan}, LookupSpecs, {<<>>}, {MapDisk(doc) : doc \in LookupDocs})
SpecLookup == InitLookup /\ [][NextMap]_vars

\* The rule of the one entry of the map document.
LookupRule == map_data[1].raw.rule

\* The key of the values table that a value, or its string form, is.
KeyOf(v, items) ==
  IF \E k \in DOMAIN items : PyEq(items[k].key, v) THEN <<v>>
  ELSE IF \E k \in DOMAIN items : PyEq(items[k].key, StrV(str(v))) THEN <<StrV(str(v))>>
  ELSE <<>>

\* What the claim says the rule gives for one value: <<>> when it says
\* nothing (no key and no default).
Claimed(v, rule) ==
  IF KeyOf(v, rule.values.items) # <<>>
  THEN <<rule.values.items[CHOOSE k \in DOMAIN rule.values.items :
                             PyEq(rule.values.items[k].key, KeyOf(v, rule.values.items)[1])].value>>
  ELSE IF "default" \in DOMAIN rule THEN <<rule.default>>
  ELSE <<>>

\* C16: when the rule of type mapping is matched and a holds a value, the
\* value written is values[current] if current or its string form is a key of
\* the table, element by element for a list, and the default only for what is
\* no key, with or without a `when`.
C16_MappingLookup ==
  [][(/\ map_pc = "loop" /\ map_i > Len(spec) /\ map_data # <<>>
      /\ <<"a">> \in DOMAIN result
      /\ "when" \in DOMAIN LookupRule => WhenHolds(LookupRule.when, result)) =>
       /\ map_pc' = "done"
       /\ IF result[<<"a">>].tag = "list"
          THEN /\ result'[<<"a">>].tag = "list"
               /\ Len(result'[<<"a">>].items) = Len(result[<<"a">>].items)
               /\ \A k \in DOMAIN result[<<"a">>].items :
                    Claimed(result[<<"a">>].items[k], LookupRule) # <<>> =>
                      result'[<<"a">>].items[k] = Claimed(result[<<"a">>].items[k], LookupRule)[1]
          ELSE Claimed(result[<<"a">>], LookupRule) # <<>> =>
                 result'[<<"a">>] = Claimed(result[<<"a">>], LookupRule)[1]]_vars

(* ---- map rules that override, or fill a gap ---- *)

\* a is absent, null (its source holds no k2) or 1.
OverrideSpecs ==
  {<<MapMeta>>,
   <<Item(<<"a">>, [sources |-> <<FileDesc("method", "k2")>>]), MapMeta>>,
   <<Producer(<<"a">>, IntV(1)), MapMeta>>}

\* A constant, a looked-up value or a default, with or without override and
\* with or without a when (one that holds, one that does not).
OverrideRules ==
  {v @@ Field("override", o) @@ Field("when", w)
   : v \in {[value |-> IntV(9)],
            [type |-> StrV(<<"const">>), value |-> IntV(7)],
            [values |-> Table(<<Entry(IntV(1), Ch("x"))>>)],
            [default |-> Ch("z")]},
     o \in {<<>>, <<TRUE>>, <<FALSE>>},
     w \in {<<>>, <<When(<<"ScanID">>, IntV(3))>>, <<When(<<"a">>, IntV(77))>>}}

OverrideDocs ==
  {<<[key |-> key, raw |-> [kind |-> "dict", rule |-> r]]>>
   : key \in {<<"a">>, <<"b">>}, r \in OverrideRules}

InitOverride == MapInitWith({IdScan}, OverrideSpecs, {<<>>}, {MapDisk(doc) : doc \in OverrideDocs})
SpecOverride == InitOverride /\ [][NextMap]_vars

\* The key and the rule of the one entry of the map document.
OverrideKey == map_data[1].key
OverrideRule == map_data[1].raw.rule

\* The value the rule computes from the current value of the key.
Computed ==
  resolve_rule_value(OverrideRule,
                     IF OverrideKey \in DOMAIN result THEN result[OverrideKey] ELSE None)

\* The rule is applied: its when is absent or holds, and it gives a value.
Applied ==
  /\ map_pc = "loop" /\ map_i > Len(spec) /\ map_data # <<>>
  /\ "when" \in DOMAIN OverrideRule => WhenHolds(OverrideRule.when, result)
  /\ Computed.ok /\ Computed.has_value

\* The key holds a value that is not null.
Present == OverrideKey \in DOMAIN result /\ result[OverrideKey] # None

\* C17: for a top-level key, the value of the applied rule replaces a present
\* non-null value exactly when the rule's override is true, which it is by
\* default; with override false the value is written when the key is absent
\* or holds null, and the tree stays as it is otherwise.
C17_OverrideOrFill ==
  [][Applied =>
       /\ map_pc' = "done"
       /\ IF Present /\ "override" \in DOMAIN OverrideRule /\ ~OverrideRule.override
          THEN result' = result
          ELSE result' = Graft(result, OverrideKey, Leaf(Computed.val))]_vars

\* A present value was kept under override false, and a null one replaced.
C17_Witness ==
  /\ map_pc = "done"
  /\ OverrideKey = <<"a">>
  /\ "override" \in DOMAIN OverrideRule /\ ~OverrideRule.override
  /\ "value" \in DOMAIN OverrideRule
  /\ <<"a">> \in DOMAIN result
  /\ result[<<"a">>] = IntV(1)

C17_WitnessFilled ==
  /\ map_pc = "done"
  /\ OverrideKey = <<"a">>
  /\ "override" \in DOMAIN OverrideRule /\ ~OverrideRule.override
  /\ "sources" \in DOMAIN spec[1].rule
  /\ result[<<"a">>] = IntV(9)

(* ------------------------------- Parser ------------------------------- *)
\* A str is the sequence of its characters.  The patterns are matched and the
\* numbers read for strs of ASCII characters without line ends.

DigitChars == {"0", "1", "2", "3", "4", "5", "6", "7", "8", "9"}
DigitVal(c) == Ord(c) - Ord("0")

\* The index after the longest run of characters of S that starts at i.
RECURSIVE Span(_, _, _)
Span(s, i, S) == IF i <= Len(s) /\ s[i] \in S THEN Span(s, i + 1, S) ELSE i

\* The index after the character at i if it is one of S, else i.
Skip(s, i, S) == IF i <= Len(s) /\ s[i] \in S THEN i + 1 ELSE i

\* str.strip() of blanks.
strip(s) ==
  IF \A k \in DOMAIN s : s[k] = " " THEN <<>>
  ELSE SubSeq(s, Span(s, 1, {" "}),
              CHOOSE k \in DOMAIN s : s[k] # " " /\ \A j \in (k + 1)..Len(s) : s[j] = " ")

\* re.match(ptrn_string, s): ^\<(?P<string>[^>]*)\>$
match_string(s) ==
  /\ Len(s) >= 2
  /\ s[1] = "<"
  /\ s[Len(s)] = ">"
  /\ \A k \in 2..(Len(s) - 1) : s[k] # ">"

\* re.match(ptrn_float, s): ^-?\d+\.\d+$
match_float(s) ==
  LET a == Skip(s, 1, {"-"})
      b == Span(s, a, DigitChars)
  IN  /\ b > a
      /\ b <= Len(s) /\ s[b] = "."
      /\ Span(s, b + 1, DigitChars) > b + 1
      /\ Span(s, b + 1, DigitChars) = Len(s) + 1

\* re.match(ptrn_engnotation, s): ^-?[0-9.]+e-?[0-9.]+$
match_engnotation(s) ==
  LET a == Skip(s, 1, {"-"})
      b == Span(s, a, DigitChars \cup {"."})
      c == Skip(s, b + 1, {"-"})
  IN  /\ b > a
      /\ b <= Len(s) /\ s[b] = "e"
      /\ Span(s, c, DigitChars \cup {"."}) > c
      /\ Span(s, c, DigitChars \cup {"."}) = Len(s) + 1

\* re.match(ptrn_integer, s): ^[-]*\d+$
match_integer(s) ==
  LET a == Span(s, 1, {"-"})
  IN  /\ Span(s, a, DigitChars) > a
      /\ Span(s, a, DigitChars) = Len(s) + 1

\* The number a run of digits writes.
RECURSIVE NatOf(_)
NatOf(digits) ==
  IF digits = <<>> THEN 0
  ELSE 10 * NatOf(SubSeq(digits, 1, Len(digits) - 1)) + DigitVal(digits[Len(digits)])

\* A float is the decimal it was read from: its sign, its digits without
\* zeros in front or at the end, and the power of ten i the digits are
\* multiplied by; zero has no digits.  A double holds a decimal of up to 15
\* digits as it is written, and repr gives these digits back.
RECURSIVE MkFloat(_, _, _)
MkFloat(neg, digits, e) ==
  IF digits = <<>> THEN Atom("float", 0, IF neg THEN <<"-">> ELSE <<>>)
  ELSE IF digits[1] = "0" THEN MkFloat(neg, Tail(digits), e)
  ELSE IF digits[Len(digits)] = "0"
  THEN MkFloat(neg, SubSeq(digits, 1, Len(digits) - 1), e + 1)
  ELSE Atom("float", e, (IF neg THEN <<"-">> ELSE <<>>) \o digits)

ValueError(msg, s) == [ok |-> FALSE, val |-> None, exc |-> Exc("ValueError", <<msg, s>>)]
Value(v) == [ok |-> TRUE, val |-> v, exc |-> NoExc]

\* float(s): a sign, digits with at most one point among them, and an
\* exponent of e or E, a sign and digits; anything else raises ValueError.
float(s) ==
  LET a == Skip(s, 1, {"-", "+"})
      b == Span(s, a, DigitChars)
      c == Skip(s, b, {"."})
      d == Span(s, c, DigitChars)
      f == Skip(s, d + 1, {"-", "+"})
      g == Span(s, f, DigitChars)
      mantissa == SubSeq(s, a, b - 1) \o SubSeq(s, c, d - 1)
  IN  IF mantissa = <<>> THEN ValueError("could not convert string to float", s)
      ELSE IF d = Len(s) + 1 THEN Value(MkFloat(a > 1 /\ s[1] = "-", mantissa, c - d))
      ELSE IF s[d] \in {"e", "E"} /\ g > f /\ g = Len(s) + 1
      THEN Value(MkFloat(a > 1 /\ s[1] = "-", mantissa,
                         (c - d) + (IF f > d + 1 /\ s[d + 1] = "-" THEN -1 ELSE 1)
                                   * NatOf(SubSeq(s, f, g - 1))))
      ELSE ValueError("could not convert string to float", s)

\* int(s): a sign and digits; anything else raises ValueError.
int(s) ==
  LET a == Skip(s, 1, {"-", "+"})
  IN  IF Span(s, a, DigitChars) > a /\ Span(s, a, DigitChars) = Len(s) + 1
      THEN Value(IntV((IF a > 1 /\ s[1] = "-" THEN -1 ELSE 1) * NatOf(SubSeq(s, a, Len(s)))))
      ELSE ValueError("invalid literal for int() with base 10", s)

\* The str once stripped and without its enclosing < > (src lines 94-96).
unquoted(s) ==
  IF match_string(strip(s)) THEN SubSeq(strip(s), 2, Len(strip(s)) - 1) ELSE strip(s)

\* Parser.convert_string_to: [ok, val, exc].
convert_string_to(s) ==
  IF unquoted(s) = <<>> THEN Value(None)
  ELSE IF match_float(unquoted(s)) \/ match_engnotation(unquoted(s)) THEN float(unquoted(s))
  ELSE IF match_integer(unquoted(s)) THEN int(unquoted(s))
  ELSE Value(StrV(unquoted(s)))

\* What a call of the Parser that returned r leaves.
par_returns(r) ==
  IF r.ok
  THEN /\ par_pc' = "done"
       /\ par_out' = r.val
       /\ UNCHANGED par_exc
  ELSE /\ par_pc' = "raised"
       /\ par_exc' = r.exc
       /\ UNCHANGED par_out

\* Parser.convert_string_to(par_in) (src lines 84-103).
convert_call ==
  /\ par_pc = "convert"
  /\ par_returns(convert_string_to(par_in))
  /\ UNCHANGED <<par_in, elements, data, data_holder, parser, level>>
  /\ UNCHANGED <<mapVars, loadVars, selVars>>

(* ---- strs to convert ---- *)

MaxLen == 3

ConvertChars == {"<", ">", "-", "7", "0", ".", "e", " ", "a"}

ParInit(pc, strs) ==
  /\ par_in \in strs
  /\ par_pc = pc
  /\ ParRest
  /\ MapIdle
  /\ LoadIdle
  /\ SelIdle

InitConvert == ParInit("convert", SeqsUpTo(ConvertChars, MaxLen))
SpecConvert == InitConvert /\ [][convert_call]_vars

\* -?\d+ as the whole of s.
SignedInteger(s) ==
  /\ Span(s, Skip(s, 1, {"-"}), DigitChars) > Skip(s, 1, {"-"})
  /\ Span(s, Skip(s, 1, {"-"}), DigitChars) = Len(s) + 1

\* C18: convert_string_to returns for every str, and what it returns follows
\* the rules in order for the stripped input without one enclosing < >: None
\* if that is empty, a float for the plain-float or scientific pattern, an
\* int for an optionally signed run of digits, and the str itself otherwise;
\* "<hello>" gives "hello", "3.14" gives 3.14, "-7" gives -7, "" gives None.
C18_ConvertTotal ==
  /\ par_pc # "raised"
  /\ par_pc = "done" =>
       IF unquoted(par_in) = <<>> THEN par_out = None
       ELSE IF match_float(unquoted(par_in)) \/ match_engnotation(unquoted(par_in))
       THEN par_out.tag = "float"
       ELSE IF SignedInteger(unquoted(par_in))
       THEN par_out = int(unquoted(par_in)).val
       ELSE par_out = StrV(unquoted(par_in))
  /\ convert_string_to(<<"<", "h", "e", "l", "l", "o", ">">>)
       = Value(StrV(<<"h", "e", "l", "l", "o">>))
  /\ convert_string_to(<<"3", ".", "1", "4">>) = Value(Atom("float", -2, <<"3", "1", "4">>))
  /\ convert_string_to(<<"-", "7">>) = Value(IntV(-7))
  /\ convert_string_to(<<>>) = Value(None)

(* ---- clean_up_elements_in_array ---- *)

\* The value group of ptrn_at_array as the whole of v:
\* [-]?\d*[.]?\d*[eE]?[-]?\d*?
match_at_value(v) ==
  LET a == Skip(v, 1, {"-"})
      b == Skip(v, Span(v, a, DigitChars), {"."})
      c == Skip(v, Span(v, b, DigitChars), {"e", "E"})
  IN  Span(v, Skip(v, c, {"-"}), DigitChars) = Len(v) + 1

AtValueChars == DigitChars \cup {"-", ".", "e", "E"}

\* re.findall(ptrn_at_array, s) as a set: the (count, value) groups of the
\* matches of @(\d*)\*\((value)\), one match at most from each "@".
findall_at_array(s) ==
  {<<SubSeq(s, i + 1, Span(s, i + 1, DigitChars) - 1),
     SubSeq(s, Span(s, i + 1, DigitChars) + 2,
            Span(s, Span(s, i + 1, DigitChars) + 2, AtValueChars) - 1)>>
   : i \in {i \in DOMAIN s :
              LET j == Span(s, i + 1, DigitChars)
                  k == Span(s, j + 2, AtValueChars)
              IN  /\ s[i] = "@"
                  /\ j + 1 <= Len(s) /\ s[j] = "*" /\ s[j + 1] = "("
                  /\ k <= Len(s) /\ s[k] = ")"
                  /\ match_at_value(SubSeq(s, j + 2, k - 1))}}

\* s.replace(old, new) for a non-empty old.
RECURSIVE replace(_, _, _)
replace(s, old, new) ==
  IF Len(s) < Len(old) THEN s
  ELSE IF SubSeq(s, 1, Len(old)) = old
  THEN new \o replace(SubSeq(s, Len(old) + 1, Len(s)), old, new)
  ELSE <<s[1]>> \o replace(Tail(s), old, new)

Zeros(n) == [k \in 1..n |-> "0"]

\* The exponent of repr(float): a sign and two digits at least.
repr_exponent(e) ==
  <<"e", IF e < 0 THEN "-" ELSE "+">>
    \o (IF e > -10 /\ e < 10 THEN <<"0">> ELSE <<>>) \o Digits(IF e < 0 THEN -e ELSE e)

\* repr(float) for the digits of a float and the place decpt of its point:
\* positional when -4 < decpt <= 16, with an exponent otherwise.
repr_digits(digits, decpt) ==
  IF digits = <<>> THEN <<"0", ".", "0">>
  ELSE IF decpt <= -4 \/ decpt > 16
  THEN <<digits[1]>> \o (IF Len(digits) > 1 THEN <<".">> \o Tail(digits) ELSE <<>>)
         \o repr_exponent(decpt - 1)
  ELSE IF decpt >= Len(digits) THEN digits \o Zeros(decpt - Len(digits)) \o <<".", "0">>
  ELSE IF decpt > 0
  THEN SubSeq(digits, 1, decpt) \o <<".">> \o SubSeq(digits, decpt + 1, Len(digits))
  ELSE <<"0", ".">> \o Zeros(-decpt) \o digits

\* repr(x) for a float x.
float_repr(x) ==
  IF x.s # <<>> /\ x.s[1] = "-"
  THEN <<"-">> \o repr_digits(Tail(x.s), Len(x.s) - 1 + x.i)
  ELSE repr_digits(x.s, Len(x.s) + x.i)

\* str([num_repeat] * num_cnt) without its "," "[" and "]".
RECURSIVE repeated(_, _)
repeated(text, num_cnt) ==
  IF num_cnt <= 0 THEN <<>>
  ELSE IF num_cnt = 1 THEN text
  ELSE text \o <<" ">> \o repeated(text, num_cnt - 1)

\* The token of an element as it stands in the data.
at_token(str_ptn) == <<"@">> \o str_ptn[1] \o <<"*", "(">> \o str_ptn[2] \o <<")">>

\* One iteration of `for str_ptn in elements` on the str s: [ok, val, exc],
\* val the new data.
clean_up_element(s, str_ptn) ==
  IF ~int(str_ptn[1]).ok THEN int(str_ptn[1])
  ELSE IF ~float(str_ptn[2]).ok THEN float(str_ptn[2])
  ELSE Value(replace(s, at_token(str_ptn),
                     repeated(float_repr(float(str_ptn[2]).val), int(str_ptn[1]).val.i)))

\* Parser.clean_up_elements_in_array up to the loop (src lines 115-116).
clean_begin ==
  /\ par_pc = "clean"
  /\ elements' = findall_at_array(par_in)
  /\ data' = par_in
  /\ par_pc' = "loop"
  /\ UNCHANGED <<par_in, par_out, par_exc, data_holder, parser, level>>
  /\ UNCHANGED <<mapVars, loadVars, selVars>>

\* One iteration of `for str_ptn in elements` (src lines 117-128); the set
\* gives its elements in any order.
clean_loop ==
  /\ par_pc = "loop"
  /\ \E str_ptn \in elements :
       IF clean_up_element(data, str_ptn).ok
       THEN /\ data' = clean_up_element(data, str_ptn).val
            /\ elements' = elements \ {str_ptn}
            /\ UNCHANGED <<par_pc, par_exc>>
       ELSE /\ par_pc' = "raised"
            /\ par_exc' = clean_up_element(data, str_ptn).exc
            /\ UNCHANGED <<data, elements>>
  /\ UNCHANGED <<par_in, par_out, data_holder, parser, level>>
  /\ UNCHANGED <<mapVars, loadVars, selVars>>

\* The loop is over: return data (src line 129).
clean_return ==
  /\ par_pc = "loop"
  /\ elements = {}
  /\ par_pc' = "done"
  /\ par_out' = StrV(data)
  /\ UNCHANGED <<par_in, par_exc, elements, data, data_holder, parser, level>>
  /\ UNCHANGED <<mapVars, loadVars, selVars>>

\* The function is applied again, to what it returned.
clean_again ==
  /\ par_pc = "done"
  /\ par_out # StrV(par_in)
  /\ par_in' = par_out.s
  /\ par_pc' = "clean"
  /\ par_out' = None
  /\ data' = <<>>
  /\ UNCHANGED <<par_exc, elements, data_holder, parser, level>>
  /\ UNCHANGED <<mapVars, loadVars, selVars>>

NextClean == clean_begin \/ clean_loop \/ clean_return \/ clean_again

(* ---- values with run-length tokens ---- *)

MaxRun == 2
MaxParts == 2

\* The values of the tokens: 5, 1.5 and 1e16.
RunValues == {<<"5">>, <<"1", ".", "5">>, <<"1", "e", "1", "6">>}

\* @N*(v) for N up to MaxRun, and the plain element 7.
RunParts ==
  {at_token(<<Digits(n), v>>) : n \in 0..MaxRun, v \in RunValues} \cup {<<"7">>}

\* The parts of a value, one blank between two.
RECURSIVE Joined(_)
Joined(parts) ==
  IF parts = <<>> THEN <<>>
  ELSE IF Len(parts) = 1 THEN parts[1]
  ELSE parts[1] \o <<" ">> \o Joined(Tail(parts))

CleanInputs == {Joined(parts) : parts \in SeqsUpTo(RunParts, MaxParts) \ {<<>>}}

InitClean == ParInit("clean", CleanInputs)
SpecClean == InitClean /\ [][NextClean]_vars

HasToken(s) == \E k \in DOMAIN s : s[k] = "@"

\* The token @N*(v) that s starts with, as <<N, v>>; <<>> if there is none.
TokenAt(s) ==
  LET j == Span(s, 2, DigitChars)
      k == Span(s, j + 2, AtValueChars)
  IN  IF /\ s # <<>> /\ s[1] = "@" /\ j > 2
         /\ j + 1 <= Len(s) /\ s[j] = "*" /\ s[j + 1] = "("
         /\ k > j + 2 /\ k <= Len(s) /\ s[k] = ")"
      THEN <<SubSeq(s, 2, j - 1), SubSeq(s, j + 2, k - 1)>>
      ELSE <<>>

\* s with each token @N*(v) replaced by N copies of v, a blank between two.
RECURSIVE Expanded(_)
Expanded(s) ==
  IF s = <<>> THEN <<>>
  ELSE IF TokenAt(s) # <<>>
  THEN repeated(TokenAt(s)[2], NatOf(TokenAt(s)[1]))
         \o Expanded(SubSeq(s, Len(at_token(TokenAt(s))) + 1, Len(s)))
  ELSE <<s[1]>> \o Expanded(Tail(s))

\* C19: clean_up_elements_in_array returns its argument with each occurrence
\* of a token @N*(v) replaced by exactly N copies of v with a blank between
\* two, and returns an argument without "@" as it is.
C19_RunLengthExpanded ==
  /\ par_pc # "raised"
  /\ par_pc = "done" => par_out = StrV(Expanded(par_in))
  /\ (par_pc = "done" /\ ~HasToken(par_in)) => par_out = StrV(par_in)

(* ---- process_complexarray ---- *)

\* clean_up_elements_in_array as one call: [ok, val, exc].  The data returned
\* does not depend on the order of the set; the str named by the ValueError
\* does, and is left out.
RECURSIVE clean_up_elements(_, _)
clean_up_elements(s, elems) ==
  IF elems = {} THEN Value(s)
  ELSE IF \E e \in elems : ~clean_up_element(s, e).ok
  THEN [ok |-> FALSE, val |-> None, exc |-> Exc("ValueError", <<>>)]
  ELSE clean_up_elements(clean_up_element(s, CHOOSE e \in elems : TRUE).val,
                         elems \ {CHOOSE e \in elems : TRUE})

clean_up_elements_in_array(s) == clean_up_elements(s, findall_at_array(s))

\* s.split(sep) for a one-character sep.
RECURSIVE split(_, _)
split(s, sep) ==
  IF \A k \in DOMAIN s : s[k] # sep THEN <<s>>
  ELSE LET at == CHOOSE k \in DOMAIN s : s[k] = sep /\ \A j \in 1..(k - 1) : s[j] # sep
       IN  <<SubSeq(s, 1, at - 1)>> \o split(SubSeq(s, at + 1, Len(s)), sep)

\* [convert_string_to(c) for c in cells]: [ok, val, exc], val a list.
RECURSIVE convert_cells(_)
convert_cells(cells) ==
  IF cells = <<>> THEN Value(ListV(<<>>))
  ELSE IF ~convert_string_to(cells[1]).ok THEN convert_string_to(cells[1])
  ELSE IF ~convert_cells(Tail(cells)).ok THEN convert_cells(Tail(cells))
  ELSE Value(ListV(<<convert_string_to(cells[1]).val>> \o convert_cells(Tail(cells)).val.items))

\* Parser.convert_data_to(s, -1) for a str s without parentheses, commas and
\* $Bis strings, once its run-length tokens are replaced: an enclosed string
\* and a plain str are converted, a str with blanks is split at them.
converted(cleaned) ==
  IF ~cleaned.ok THEN cleaned
  ELSE IF match_string(cleaned.val)
  THEN convert_string_to(SubSeq(cleaned.val, 2, Len(cleaned.val) - 1))
  ELSE IF \E k \in DOMAIN cleaned.val : cleaned.val[k] = " "
  THEN convert_cells(split(cleaned.val, " "))
  ELSE convert_string_to(cleaned.val)

convert_data_to(s) == converted(clean_up_elements_in_array(s))

\* The index of the first parenthesis of s from i on; Len(s) + 1 if none.
RECURSIVE next_paren(_, _)
next_paren(s, i) ==
  IF i > Len(s) \/ s[i] \in {"(", ")"} THEN i ELSE next_paren(s, i + 1)

\* s starts with a match of ptrn_braces: \((?P<contents>[^()]*)\)
braces_at(s) ==
  /\ s # <<>> /\ s[1] = "("
  /\ next_paren(s, 2) <= Len(s) /\ s[next_paren(s, 2)] = ")"

\* The contents of the matches of re.finditer(ptrn_braces, s), in order.
RECURSIVE finditer_braces(_)
finditer_braces(s) ==
  IF s = <<>> THEN <<>>
  ELSE IF braces_at(s)
  THEN <<SubSeq(s, 2, next_paren(s, 2) - 1)>>
         \o finditer_braces(SubSeq(s, next_paren(s, 2) + 1, Len(s)))
  ELSE finditer_braces(Tail(s))

\* re.sub(ptrn_braces, '', s)
RECURSIVE sub_braces(_)
sub_braces(s) ==
  IF s = <<>> THEN <<>>
  ELSE IF braces_at(s) THEN sub_braces(SubSeq(s, next_paren(s, 2) + 1, Len(s)))
  ELSE <<s[1]>> \o sub_braces(Tail(s))

\* cont_parser for the cells of one match (src line 162): the values that
\* are not None, [ok, val, exc] with val their sequence.
RECURSIVE cont_parser(_)
cont_parser(cells) ==
  IF cells = <<>> THEN Value(<<>>)
  ELSE IF ~convert_data_to(strip(cells[1])).ok THEN convert_data_to(strip(cells[1]))
  ELSE IF ~cont_parser(Tail(cells)).ok THEN cont_parser(Tail(cells))
  ELSE Value((IF convert_data_to(strip(cells[1])).val.tag = "none" THEN <<>>
              ELSE <<convert_data_to(strip(cells[1])).val>>)
             \o cont_parser(Tail(cells)).val)

\* The groups one pass appends to its level (src lines 161-163): [ok, val,
\* exc].
RECURSIVE level_groups(_)
level_groups(contents) ==
  IF contents = <<>> THEN Value(<<>>)
  ELSE IF ~cont_parser(split(contents[1], ",")).ok THEN cont_parser(split(contents[1], ","))
  ELSE IF ~level_groups(Tail(contents)).ok THEN level_groups(Tail(contents))
  ELSE Value(<<cont_parser(split(contents[1], ",")).val>> \o level_groups(Tail(contents)).val)

\* Parser.process_complexarray up to the loop (src lines 157-159).
complex_begin ==
  /\ par_pc = "complex"
  /\ data_holder' = par_in
  /\ parser' = <<>>
  /\ level' = 1
  /\ par_pc' = "pass"
  /\ UNCHANGED <<par_in, par_out, par_exc, elements, data>>
  /\ UNCHANGED <<mapVars, loadVars, selVars>>

\* One iteration of `while re.search(ptrn_braces, data_holder)` (src lines
\* 160-165): parser[k] is the list under level_k.
complex_pass ==
  /\ par_pc = "pass"
  /\ finditer_braces(data_holder) # <<>>
  /\ IF level_groups(finditer_braces(data_holder)).ok
     THEN /\ parser' = Append(parser, level_groups(finditer_braces(data_holder)).val)
          /\ data_holder' = sub_braces(data_holder)
          /\ level' = level + 1
          /\ UNCHANGED <<par_pc, par_exc>>
     ELSE /\ par_pc' = "raised"
          /\ par_exc' = level_groups(finditer_braces(data_holder)).exc
          /\ UNCHANGED <<parser, data_holder, level>>
  /\ UNCHANGED <<par_in, par_out, elements, data>>
  /\ UNCHANGED <<mapVars, loadVars, selVars>>

\* No group is left: return dict(parser) (src line 166).
complex_return ==
  /\ par_pc = "pass"
  /\ finditer_braces(data_holder) = <<>>
  /\ par_pc' = "done"
  /\ par_out' = DictNode
  /\ UNCHANGED <<par_in, par_exc, elements, data, data_holder, parser, level>>
  /\ UNCHANGED <<mapVars, loadVars, selVars>>

NextComplex == complex_begin \/ complex_pass \/ complex_return

(* ---- nested arrays ---- *)

MaxGroups == 3

GroupStrs ==
  {<<"(", "1", ",", "2", ")">>, <<"(", "3", ",", "4", ")">>, <<"(", ")">>,
   <<"(", "1", ",", ",", "<", "a", ">", ")">>, <<"(", "5", " ", "6", ")">>}

RECURSIVE Concat(_)
Concat(parts) == IF parts = <<>> THEN <<>> ELSE parts[1] \o Concat(Tail(parts))

\* Up to MaxGroups groups in one pair of parentheses, and that in one more.
ComplexInputs ==
  LET flat == {<<"(">> \o Concat(gs) \o <<")">> : gs \in SeqsUpTo(GroupStrs, MaxGroups) \ {<<>>}}
  IN  flat \cup {<<"(">> \o f \o <<")">> : f \in flat} \cup GroupStrs

InitComplex == ParInit("complex", ComplexInputs)
SpecComplex == InitComplex /\ [][NextComplex]_vars

\* "((1,2)(3,4))"
TwoPairs == <<"(">> \o Concat(<<<<"(", "1", ",", "2", ")">>, <<"(", "3", ",", "4", ")">>>>) \o <<")">>

\* C20: process_complexarray("((1,2)(3,4))") returns, its level_1 holds the
\* groups [1, 2] and [3, 4], and no parenthesis group is left after the first
\* pass, so there is no level_2.
C20_TwoPairsOneLevel ==
  par_in = TwoPairs =>
    /\ par_pc # "raised"
    /\ level > 1 => finditer_braces(data_holder) = <<>>
    /\ par_pc = "done" =>
         parser = << <<<<IntV(1), IntV(2)>>, <<IntV(3), IntV(4)>>>> >>

(* ---- the key order of a merged spec ---- *)

OwnKeys == LocalKeys(files, Resolve(spec_source))

\* The positions in the returned spec of the rules the loaded spec defines
\* itself, and of the rules that only its includes bring.
OwnAt == {i \in DOMAIN load_ret.spec : load_ret.spec[i].key \in OwnKeys}
IncludedAt == {i \in DOMAIN load_ret.spec : load_ret.spec[i].key \notin OwnKeys \cup {"__meta__"}}

\* C21: in the spec load_spec returns, every rule the loaded spec defines
\* itself, one that overrides an included key too, comes after every rule
\* that only an include contributes.
C21_LocalRulesLast ==
  load_pc = "done" => \A i \in OwnAt, j \in IncludedAt : j < i

(* ---- sources addressed by reco id ---- *)

RecoIds == {1, 2}

\* The tables of reco r: each holds k1, with a value that names the reco
\* and the file.
RecoTables(r) ==
  [visu_pars |-> ("k1" :> IntV(10 * r + 1)), reco |-> ("k1" :> IntV(10 * r + 2))]

\* The same recos held by a scan-like object and by a plain mapping.
RecoSources ==
  {[kind |-> kind, recos |-> [r \in held |-> RecoTables(r)],
    tables |-> ("method" :> [k \in {} |-> None]) @@ ("acqp" :> [k \in {} |-> None])]
   : kind \in {"scan", "map"}, held \in SUBSET RecoIds}

RecoDescs ==
  {FileDesc(f, k) : f \in {"visu_pars", "reco"}, k \in Keys}
  \cup {FileDesc(f, k) @@ [reco_id |-> r] : f \in {"visu_pars", "reco"}, k \in Keys, r \in RecoIds}

RecoSpecs == {<<Item(<<"out">>, [sources |-> s])>> : s \in SeqsUpTo(RecoDescs, MaxSources)}

InitRecos == MapInit(RecoSources, RecoSpecs)
SpecRecos == InitRecos /\ [][NextMap]_vars

\* The same recos held by the other kind of source.
Twin(src) == [src EXCEPT !.kind = IF @ = "scan" THEN "map" ELSE "scan"]

\* The reco a descriptor addresses: the one it names, or reco 1.
Addressed(d) == IF "reco_id" \in DOMAIN d THEN d.reco_id ELSE 1

\* The value descriptor d addresses in the recos of src.
RecoValue(src, d) ==
  IF Addressed(d) \in DOMAIN src.recos /\ d.key \in DOMAIN src.recos[Addressed(d)][d.file]
  THEN src.recos[Addressed(d)][d.file][d.key]
  ELSE None

\* Every descriptor of the rule addresses a reco that the source holds.
AllHeld ==
  \A k \in DOMAIN spec[1].rule.sources :
    Addressed(spec[1].rule.sources[k]) \in DOMAIN source.recos

\* C22: a visu_pars or reco descriptor reads the table of the reco it names,
\* of reco 1 when it names none, and the scan-like object and the plain
\* mapping that hold the same recos give the same outcome.
C22_RecoAddressing ==
  (map_pc \in {"done", "raised"} /\ AllHeld) =>
    /\ map_pc = "done"
    /\ Len(spec[1].rule.sources) = 1 =>
          result = Graft(EmptyDict, <<"out">>,
                         Leaf(RecoValue(source, spec[1].rule.sources[1])))
    /\ map_parameters(Twin(source), spec, Transforms, map_file, map_files)
          = [ok |-> TRUE, result |-> result, calls |-> calls, exc |-> NoExc]

(* ---- an output key and a sub-path of it ---- *)

\* a: {inputs: {c: {const: 7}}}, whose value is the dict {c: 7}.
DictRule == [inputs |-> <<In("c", [const |-> IntV(7)])>>]

\* Rules for a, a.b and d that give 5 or 6, and the rule that gives a dict.
ParentItems ==
  {Producer(k, v) : k \in {<<"a">>, <<"a", "b">>, <<"d">>}, v \in {IntV(5), IntV(6)}}
    \cup {Item(<<"a">>, DictRule)}

ParentSpecs == SeqsUpTo(ParentItems, MaxRules) \ {<<>>}

InitParent == MapInit({ScalarScan}, ParentSpecs)
SpecParent == InitParent /\ [][NextMap]_vars

\* The value a rule of ParentItems gives.
Written(rule) ==
  IF "transform" \in DOMAIN rule THEN Leaf(rule.inputs[1].spec.const)
  ELSE (<<>> :> DictNode) @@ (<<"c">> :> rule.inputs[1].spec.const)

\* Every scalar of value v is in the output tree where a write of v at p put it.
Kept(p, v) ==
  \A q \in DOMAIN v :
    v[q] # DictNode => (p \o q \in DOMAIN result /\ result[p \o q] = v[q])

\* C23: a spec of two rules, one for a and one for a.b, in either order:
\* map_parameters returns, and what each rule wrote is in the output tree.
C23_ParentAndChildCoexist ==
  \A i, j \in DOMAIN spec :
    (/\ map_pc \in {"done", "raised"}
     /\ Len(spec) = 2
     /\ spec[i].key = <<"a">>
     /\ spec[j].key = <<"a", "b">>) =>
      /\ map_pc = "done"
      /\ Kept(<<"a">>, Written(spec[i].rule))
      /\ Kept(<<"a", "b">>, Written(spec[j].rule))

(* ---- dotted paths in a map document ---- *)

\* The overlay is due, and the map document is one entry with one candidate.
OneCandidateDue ==
  /\ map_pc = "loop"
  /\ map_i > Len(spec)
  /\ map_data # <<>>
  /\ Len(map_data) = 1
  /\ Len(Candidates(map_data[1])) = 1

TheKey == map_data[1].key
TheCandidate == Candidates(map_data[1])[1]
TheWhenKey == TheCandidate.when.items[1].key
TheWhenCond == TheCandidate.when.items[1].cond

IsIdAlias(key) == Len(key) = 1 /\ lower(key[1]) \in {"scanid", "scan_id", "recoid", "reco_id"}

\* C24: the overlay returns without raising; an entry keyed by a dotted path
\* writes its value at the nested position; a `when` keyed by a dotted path
\* is tested against the nested output value; a `when` keyed by an alias of
\* the scan id is tested against the scan id of the source.
C24_DottedPathsResolved ==
  [][OneCandidateDue =>
       /\ (Len(TheKey) > 1 /\ DOMAIN TheCandidate = {"value"}) =>
            /\ map_pc' = "done"
            /\ TheKey \in DOMAIN result'
            /\ SubTree(result', TheKey) = Leaf(TheCandidate.value)
       /\ (Len(TheKey) = 1 /\ "when" \in DOMAIN TheCandidate /\ Len(TheWhenKey) > 1) =>
            /\ map_pc' = "done"
            /\ result' = IF PyEq(TreeValue(get_nested(result, TheWhenKey)), TheWhenCond)
                         THEN Graft(result, TheKey, Leaf(TheCandidate.value))
                         ELSE result
       /\ (Len(TheKey) = 1 /\ "when" \in DOMAIN TheCandidate /\ IsIdAlias(TheWhenKey)) =>
            /\ map_pc' = "done"
            /\ result' = IF PyEq(source.scan_id, TheWhenCond)
                         THEN Graft(result, TheKey, Leaf(TheCandidate.value))
                         ELSE result
    ]_vars

(* ---- map entries of which no candidate applies ---- *)

\* a: 1, e: null (the method table holds no k2) and n: {m: 2}.
UnappliedSpec ==
  <<Producer(<<"a">>, IntV(1)), Item(<<"e">>, [sources |-> <<FileDesc("method", "k2")>>]),
    Producer(<<"n", "m">>, IntV(2)), MapMeta>>

\* Candidates whose when fails of a, names a key the tree lacks or fails of
\* n.m; a mapping rule without default whose table holds 5 only; and a
\* candidate that applies.
UnappliedKinds == {"miss", "missing", "dotted", "lookup", "none"}
Unapplied(kind, v) ==
  CASE kind = "miss" -> [when |-> When(<<"a">>, IntV(2)), value |-> IntV(v)]
    [] kind = "missing" -> [when |-> When(<<"zz">>, IntV(1)), value |-> IntV(v)]
    [] kind = "dotted" -> [when |-> When(<<"n", "m">>, IntV(3)), value |-> IntV(v)]
    [] kind = "lookup" -> [type |-> StrV(<<"mapping">>),
                           values |-> Table(<<Entry(IntV(5), IntV(v))>>)]
    [] OTHER -> [value |-> IntV(v)]

UnappliedLists ==
  {[k \in DOMAIN kinds |-> Unapplied(kinds[k], 10 + k)]
   : kinds \in SeqsUpTo(UnappliedKinds, MaxCandidates) \ {<<>>}}

UnappliedDocs ==
  {<<[key |-> key, raw |-> [kind |-> "list", items |-> items]]>>
   : key \in {<<"a">>, <<"b">>, <<"e">>, <<"n", "m">>}, items \in UnappliedLists}

InitUnapplied ==
  MapInitWith({IdScan}, {UnappliedSpec}, {<<>>}, {MapDisk(doc) : doc \in UnappliedDocs})
SpecUnapplied == InitUnapplied /\ [][NextMap]_vars

\* The candidate is a mapping rule without default whose table lacks null,
\* and the tree d holds no value, or null, at key.
LookupSkipped(rule, d, key) ==
  /\ "values" \in DOMAIN rule
  /\ "default" \notin DOMAIN rule
  /\ \A k \in DOMAIN rule.values.items : rule.values.items[k].key # None
  /\ TreeValue(get_nested(d, key)) = None

\* No candidate of the entry applies to the tree d.
NoneApplies(entry, d) ==
  \/ FirstApplicable(Candidates(entry), d) = 0
  \/ LookupSkipped(Candidates(entry)[FirstApplicable(Candidates(entry), d)], d, entry.key)

\* Neither the key of the entry nor a key of a `when` is a dotted path.
Undotted(entry) ==
  /\ Len(entry.key) = 1
  /\ \A k \in DOMAIN Candidates(entry) :
       "when" \in DOMAIN Candidates(entry)[k] =>
         \A j \in DOMAIN Candidates(entry)[k].when.items :
           Len(Candidates(entry)[k].when.items[j].key) = 1

\* C25: when no candidate of the entry applies, the output tree after the
\* overlay is what it was, at the entry's key and at every other key; and
\* the overlay returns when no dotted path is involved.
C25_UnappliedLeavesTree ==
  [][(/\ map_pc = "loop" /\ map_i > Len(spec) /\ map_data # <<>>
      /\ NoneApplies(map_data[1], result)) =>
       /\ result' = result
       /\ Undotted(map_data[1]) => map_pc' = "done"]_vars

\* The when of the first candidate failed and the second, a mapping rule
\* without default, found null at e: the overlay returned and e is null.
C25_Witness ==
  /\ map_pc = "done"
  /\ map_data # <<>>
  /\ map_data[1].key = <<"e">>
  /\ Len(Candidates(map_data[1])) = 2
  /\ Candidates(map_data[1])[1] = Unapplied("miss", 11)
  /\ Candidates(map_data[1])[2] = Unapplied("lookup", 12)
  /\ NoneApplies(map_data[1], result)
  /\ result[<<"e">>] = None
  /\ result[<<"a">>] = IntV(1)

(* ---- the transform registry ---- *)

\* The lists of transform sources a spec names.
SourceLists ==
  {<<>>, <<<<"t1.py">>>>, <<<<"t2.py">>>>, <<<<"t1.py">>, <<"t2.py">>>>,
   <<<<"t2.py">>, <<"t1.py">>>>}

\* A.yaml includes B.yaml and C.yaml in either order, one of them or none;
\* B.yaml includes C.yaml, A.yaml (a cycle) or nothing; each names a list of
\* transform sources.
RegistryFiles ==
  {(<<"A.yaml">> :> SpecFile(<<"A.yaml">>, <<ia>>, <<>>, <<"x">>, <<ta>>))
   @@ (<<"B.yaml">> :> SpecFile(<<"B.yaml">>, <<ib>>, <<>>, <<"y">>, <<tb>>))
   @@ (<<"C.yaml">> :> SpecFile(<<"C.yaml">>, <<>>, <<>>, <<"x">>, <<tc>>))
   @@ TransformFiles
   : ia \in {<<>>, <<<<"B.yaml">>>>, <<<<"C.yaml">>>>, <<<<"B.yaml">>, <<"C.yaml">>>>,
             <<<<"C.yaml">>, <<"B.yaml">>>>},
     ib \in {<<>>, <<<<"C.yaml">>>>, <<<<"A.yaml">>>>},
     ta \in SourceLists, tb \in SourceLists, tc \in SourceLists}

InitRegistry == LoadInit({<<"A.yaml">>}, RegistryFiles)
SpecRegistry == InitRegistry /\ [][NextLoad]_vars

\* The transform sources a spec file names itself.
OwnSources(fs, path) ==
  IF Loadable(fs, path) /\ fs[path].meta # <<>> /\ "transforms_source" \in DOMAIN fs[path].meta[1]
  THEN [k \in DOMAIN fs[path].meta[1].transforms_source |->
          Join(parent(path), fs[path].meta[1].transforms_source[k])]
  ELSE <<>>

\* The sources of a spec, n levels deep: its own, then those of each spec it
\* includes, in include order.
RECURSIVE SourcesOfSpec(_, _, _)
SourcesOfSpec(fs, path, n) ==
  IF n = 0 \/ ~Loadable(fs, path) THEN <<>>
  ELSE OwnSources(fs, path)
       \o Concat([j \in DOMAIN IncludesOf(fs, path) |->
                    SourcesOfSpec(fs, Join(parent(path), IncludesOf(fs, path)[j]), n - 1)])

ReadOrder == SourcesOfSpec(files, Resolve(spec_source), Depth)
FirstAt(p) == Min({k \in DOMAIN ReadOrder : ReadOrder[k] = p})

\* The sources of the list read that define name.
Defining(name) ==
  {k \in DOMAIN load_ret.transforms_path :
     name \in DOMAIN files[load_ret.transforms_path[k]].callables}

\* C26: the sources load_spec reads are the loaded spec's own, then those of
\* each included spec in include order, each path once, at its first
\* occurrence; the registry holds every name a source defines, with the
\* callable of the last source read that defines it.
C26_RegistryLastSourceWins ==
  load_pc = "done" =>
    /\ {load_ret.transforms_path[k] : k \in DOMAIN load_ret.transforms_path}
         = {ReadOrder[k] : k \in DOMAIN ReadOrder}
    /\ \A i, j \in DOMAIN load_ret.transforms_path :
         i < j => FirstAt(load_ret.transforms_path[i]) < FirstAt(load_ret.transforms_path[j])
    /\ DOMAIN load_ret.transforms
         = UNION {DOMAIN files[load_ret.transforms_path[k]].callables
                  : k \in DOMAIN load_ret.transforms_path}
    /\ \A name \in DOMAIN load_ret.transforms :
         load_ret.transforms[name]
           = files[load_ret.transforms_path[Max(Defining(name))]].callables[name]

\* A.yaml names t1.py, which defines f and g, and includes B.yaml, which
\* names t2.py, which defines f: f is the one of t2.py and g the one of t1.py.
C26_Witness ==
  /\ load_pc = "done"
  /\ OwnSources(files, <<"A.yaml">>) = <<<<"t1.py">>>>
  /\ IncludesOf(files, <<"A.yaml">>) = <<<<"B.yaml">>>>
  /\ OwnSources(files, <<"B.yaml">>) = <<<<"t2.py">>, <<"t1.py">>>>
  /\ load_ret.transforms_path = <<<<"t1.py">>, <<"t2.py">>>>
  /\ load_ret.transforms.f = files[<<"t2.py">>].callables.f
  /\ load_ret.transforms.g = files[<<"t1.py">>].callables.g

(* ---- inputs that carry const or ref ---- *)

\* The calls of the input-level transform of the runs.
IncCalls == {k \in DOMAIN calls : calls[k].name = "inc"}

\* The input has neither const nor ref, and its sources or its default give
\* the value Taken.
FromSourcesOrDefault(i) ==
  /\ DOMAIN i \cap {"const", "ref"} = {}
  /\ FirstNonNull(source, SourcesOf(i)) # None \/ "default" \in DOMAIN i
Taken(i) ==
  IF FirstNonNull(source, SourcesOf(i)) # None THEN FirstNonNull(source, SourcesOf(i))
  ELSE i.default

\* C27: an input with const, or else with ref, has that constant, or the
\* value at that path of the output tree (null when the path is absent), as
\* its value, whatever its transform, default and required say, and its
\* transform is not called; a value taken from the sources or from the
\* default is passed to the input's transform.
C27_ConstRefAsIs ==
  (OutStored \/ OutRaised) =>
    /\ "const" \in DOMAIN OutInput =>
         /\ OutStored
         /\ InputSeen = Leaf(OutInput.const)
         /\ IncCalls = {}
    /\ ("ref" \in DOMAIN OutInput /\ "const" \notin DOMAIN OutInput) =>
         /\ OutStored
         /\ InputSeen = (IF OutInput.ref \in DOMAIN result
                         THEN SubTree(result, OutInput.ref) ELSE Leaf(None))
         /\ IncCalls = {}
    /\ (FromSourcesOrDefault(OutInput) /\ "transform" \in DOMAIN OutInput) =>
         /\ IncCalls # {}
         /\ \A k \in IncCalls : calls[k].arg = Leaf(Taken(OutInput))
         /\ OutStored => InputSeen = Leaf(IntV(Taken(OutInput).i + 1))

\* ref: q, a path that no rule wrote, with required: true, a default and a
\* transform: the input is null.
C27_Witness ==
  /\ map_pc = "done"
  /\ {"ref", "required", "default", "transform"} \subseteq DOMAIN OutInput
  /\ "const" \notin DOMAIN OutInput
  /\ OutInput.ref = <<"q">>
  /\ OutInput.required
  /\ OutInput.default = IntV(8)
  /\ InputSeen = Leaf(None)
  /\ IncCalls = {}

(* ---- rules that raise in a rule list ---- *)

\* The entries of rules that are rules whose evaluation raises.
RaisingRules ==
  {k \in DOMAIN rules :
     IsRule(rules[k]) /\ ~rule_matches(source, rules[k], files, base).ok}

\* C28: select_rule_use goes through the whole list, also after a rule has
\* matched; it returns only when no rule of the list raises, and otherwise
\* raises what the first rule that raises raised, whatever matched before.
C28_AnyRaiseAborts ==
  /\ sel_pc = "loop" => \A k \in RaisingRules : k >= sel_i
  /\ sel_pc = "done" => (RaisingRules = {} /\ sel_i = Len(rules) + 1)
  /\ sel_pc = "raised" =>
       /\ sel_i = Min(RaisingRules)
       /\ sel_exc = rule_matches(source, rules[sel_i], files, base).exc

\* The first rule matched and named a spec, the second raised: the call
\* raised.
C28_Witness ==
  /\ sel_pc = "raised"
  /\ Len(rules) = 2
  /\ Matching = {1}
  /\ RaisingRules = {2}
  /\ selected # None
  /\ sel_exc.type = "ValueError"

(* ---- operators that `if` does not know ---- *)

UnknownOps == {"xor", "equals"}

\* One rule `if: {op: [left, right]}` whose operator is none of the
\* supported names.
UnknownOpRules ==
  {[name |-> "r", when |-> WhenK1, if |-> Binary(op, l, r), use |-> UseA,
    __transforms__ |-> NoTransforms]
   : op \in UnknownOps, l \in Operands, r \in Operands}

InitUnknownOps ==
  SelectInit(K1Scans, {SelectFiles}, {CfgRoot}, {<<r>> : r \in UnknownOpRules})
SpecUnknownOps == InitUnknownOps /\ [][NextSelect]_vars

\* C29: a rule whose `if` has an unsupported operator makes the call raise,
\* whatever its operands resolve to, None included; the expression is never
\* taken for true or false.
C29_UnknownOperatorRaises ==
  sel_pc \in {"done", "raised"} =>
    /\ sel_pc = "raised"
    /\ sel_exc.type = "ValueError"
    /\ ~IfTrue /\ ~IfFalse

(* ---- the stack of paths being loaded ---- *)

\* A.yaml includes B.yaml and C.yaml, B.yaml includes C.yaml, and C.yaml
\* includes nothing: C.yaml is reached through two branches.  Both are
\* mappings with an include_mode that is allowed.
Diamond ==
  /\ IncludesOf(files, <<"A.yaml">>) \in {<<<<"B.yaml">>, <<"C.yaml">>>>,
                                          <<<<"C.yaml">>, <<"B.yaml">>>>}
  /\ IncludesOf(files, <<"B.yaml">>) = <<<<"C.yaml">>>>
  /\ IncludesOf(files, <<"C.yaml">>) = <<>>
  /\ Loadable(files, <<"B.yaml">>)
  /\ Loadable(files, <<"C.yaml">>)
  /\ \A n \in {<<"B.yaml">>, <<"C.yaml">>} :
       (files[n].meta # <<>> /\ "include_mode" \in DOMAIN files[n].meta[1])
         => files[n].meta[1].include_mode \in {"override", "strict"}

Circular == load_exc.type = "ValueError" /\ load_exc.msg[1] = "Circular spec include detected"

\* C30: the stack holds the paths of the calls of _load_spec_data that are
\* active and no other: a call that returns, or that an exception leaves,
\* takes its own path out and leaves the rest, and the stack is empty when
\* load_spec ends; in a diamond each include of the shared file is loaded
\* and no cycle is reported.
C30_StackRestored ==
  /\ [](stack = Loading)
  /\ [](load_pc \in {"done", "raised"} => stack = {})
  /\ [][Len(frames') < Len(frames) =>
          /\ stack' = stack \ {Top.spec_path}
          /\ stack' = {frames'[i].spec_path : i \in DOMAIN frames'}]_vars
  /\ [][(Diamond /\ CallDue /\ Target = <<"C.yaml">>) =>
          /\ Len(frames') = Len(frames) + 1
          /\ frames'[Len(frames')].spec_path = <<"C.yaml">>]_vars
  /\ [](Diamond => ~Circular)

\* The diamond was loaded: the spec returned holds the key of C.yaml.
C30_Witness ==
  /\ load_pc = "done"
  /\ Diamond
  /\ stack = {}
  /\ LocalKeys(files, <<"A.yaml">>) = {}
  /\ LocalKeys(files, <<"B.yaml">>) = {"x"}
  /\ LocalKeys(files, <<"C.yaml">>) = {"y"}
  /\ SpecKeys(load_ret.spec) = {"x", "y"}

====
